---- MODULE Spec2Model ----
(***************************************************************************)
(* Model of the analysis core of trading-ai: the indicator library, the    *)
(* order-book analyzer with its candle cache, the risk scorer, the         *)
(* multi-timeframe aggregator and the walk-forward historical backtester.  *)
(*                                                                         *)
(* Prices, volumes and scores are floats in the source. Here they are      *)
(* integers in a fixed unit, and every quotient the code forms is kept as  *)
(* an exact fraction [num, den] (den > 0), so that equalities and order    *)
(* comparisons are decided by cross-multiplication and never by rounding.  *)
(* The sub-scores of the risk scorer, which lie in [0, 1], are integers in *)
(* units of 1 / RiskScale. The aggregator works on frames that carry their *)
(* candles together with the indicator values of the history before them.  *)
(*                                                                         *)
(* Each component has its own specification (SpecRsi, SpecDepth, ...): its *)
(* Init draws no input, its actions draw the inputs of one call from       *)
(* bounded sets and leave the other components' variables unchanged.       *)
(***************************************************************************)
EXTENDS Integers, Sequences, FiniteSets, TLC

VARIABLES
    tfs_analysis,   \* the snapshot of the last _analyze_timeframe_signals call
    tfs_signals,    \* the signals it returned (None before any call)
    rsi_data,       \* the price series of the last calculate_advanced_rsi call
    rsi_period,     \* its period argument
    rsi_result,     \* the dictionary it returned (None before any call)
    depth,          \* the collaborator's last answer to a 'depth' request
    order_book,     \* what analyze_order_book_depth returned for it
    vp_data,        \* the candles of the last calculate_volume_profile call
    vp_levels,      \* its price_levels argument
    vp_result,      \* the dictionary it returned (None before any call)
    cache,          \* the cache file of each timeframe
    now,            \* the clock, in seconds
    mtf_request,    \* timeframes of the last get_multi_timeframe_data call
    mtf_data,       \* the dictionary it returned
    client_calls,   \* the timeframes it asked the client for
    client_answers, \* what the client answered for each of them
    profiles,       \* what analyze_volume_profile returned (None before any call)
    bt_market_data, \* market_data of the last analyze_historical_data call
    bt_analysis,    \* its analysis_results argument
    bt_period,      \* the rows of the date range, before cleaning
    bt_results,     \* the dictionary it returned (None before any call)
    market,         \* the answers of the client a TradingAnalyzer is built on
    analyses,       \* what its perform_complete_analysis calls returned, in order
    pat_data,       \* the candles of the last identify_engulfing call
    pair_symbols,   \* the symbols of the last analyze_multiple_pairs call
    pair_markets,   \* what the client answers for each of them
    pair_result,    \* what the call returned (Unasked before any call)
    sig_analysis,   \* the analysis of the last _generate_trade_signals call
    sig_signals,    \* the signals it returned (None before any call)
    sr_data,        \* the candles of the last calculate_support_resistance call
    sr_window,      \* its window argument
    sr_touches,     \* its num_touches argument
    sr_result,      \* the dictionary it returned (None before any call)
    risk_calls,     \* the _calculate_liquidity_risk calls made: argument and result
    pat_result      \* the series it returned for them, and for the candles
                    \* with open and close swapped (None before any call)

rsiVars == <<rsi_data, rsi_period, rsi_result>>
depthVars == <<depth, order_book>>
vpVars == <<vp_data, vp_levels, vp_result>>

cacheVars == <<cache, now, mtf_request, mtf_data, client_calls, client_answers,
               profiles>>
btVars == <<bt_market_data, bt_analysis, bt_period, bt_results>>
aggVars == <<market, analyses>>
patVars == <<pat_data, pat_result>>
riskVars == <<risk_calls>>
pairVars == <<pair_symbols, pair_markets, pair_result>>
sigVars == <<sig_analysis, sig_signals>>
srVars == <<sr_data, sr_window, sr_touches, sr_result>>
tfsVars == <<tfs_analysis, tfs_signals>>
(***************************************************************************)
(* Helpers                                                                 *)
(***************************************************************************)
Max2(a, b) == IF a >= b THEN a ELSE b
Min2(a, b) == IF a <= b THEN a ELSE b
Abs(a) == IF a >= 0 THEN a ELSE 0 - a

Frac(n, d) == [num |-> n, den |-> d]
FracEq(a, b) == a.num * b.den = b.num * a.den
FracLt(a, b) == a.num * b.den < b.num * a.den
FracLe(a, b) == a.num * b.den <= b.num * a.den

RECURSIVE SumSeq(_)
SumSeq(s) == IF s = <<>> THEN 0 ELSE Head(s) + SumSeq(Tail(s))

SeqsUpTo(S, n) == UNION {[1..k -> S] : k \in 0..n}

\* Python's None, for results and optional fields that are records otherwise
None == [none |-> TRUE]

(***************************************************************************)
(* Indicator library: TechnicalIndicators.calculate_advanced_rsi           *)
(***************************************************************************)
MaxRsiLen == 4          \* longest price series drawn
MaxRsiPrice == 3        \* prices are 1..MaxRsiPrice
RsiDefaultPeriod == 14
RsiOverbought == 70
RsiOversold == 30
RsiNeutral == 50
\* avg_loss.replace(0, 0.00001): the guard value is 1/RsiEpsInv
RsiEpsInv == 100000

RsiPeriods == {1, RsiDefaultPeriod}
RsiInputs == SeqsUpTo(1..MaxRsiPrice, MaxRsiLen)

\* delta = data.diff(); gain = delta.clip(lower=0).fillna(0)
Gain(data, k) == IF k = 1 THEN 0 ELSE Max2(data[k] - data[k-1], 0)
\* loss = (-delta.clip(upper=0)).fillna(0)
Loss(data, k) == IF k = 1 THEN 0 ELSE Max2(data[k-1] - data[k], 0)

\* rolling(window=period, min_periods=1): the bars of the window ending at k
RollWindow(k, period) == Max2(1, k - period + 1)..k

RECURSIVE SumOver(_, _)
SumOver(f, S) ==
    IF S = {} THEN 0
    ELSE LET x == CHOOSE y \in S : TRUE IN f[x] + SumOver(f, S \ {x})

\* rs = avg_gain / avg_loss with avg_loss 0 replaced by 0.00001, and
\* rsi = 100 - 100 / (1 + rs) = 100 * avg_gain / (avg_gain + avg_loss);
\* both averages times n * RsiEpsInv, n the number of bars in the window.
RsiValue(data, k, period) ==
    LET W  == RollWindow(k, period)
        n  == Cardinality(W)
        sg == SumOver([j \in W |-> Gain(data, j)], W)
        sl == SumOver([j \in W |-> Loss(data, j)], W)
        g  == sg * RsiEpsInv
        l  == IF sl = 0 THEN n ELSE sl * RsiEpsInv
    IN  Frac(100 * g, g + l)

\* signals: 1 where rsi < oversold, then -1 where rsi > overbought
RsiSignal(r) ==
    IF FracLt(Frac(RsiOverbought, 1), r) THEN -1
    ELSE IF FracLt(r, Frac(RsiOversold, 1)) THEN 1
    ELSE 0

\* data.rolling(window=period).apply(...) leaves NaN in the first period-1
\* bars (min_periods defaults to the window), and .astype(int) raises on NaN.
DivergenceRaises(data, period) == Len(data) >= 1 /\ period >= 2

\* The except branch: every series of the result is pd.Series(0, index).
RsiDefaultResult(data) ==
    [RSI |-> [k \in 1..Len(data) |-> Frac(0, 1)],
     signals |-> [k \in 1..Len(data) |-> 0],
     bearish_divergence |-> [k \in 1..Len(data) |-> 0],
     bullish_divergence |-> [k \in 1..Len(data) |-> 0]]

\* The try branch when nothing raises: with period = 1 each rolling window
\* holds one bar, check_higher_high / check_lower_low return False on it.
RsiComputedResult(data, period) ==
    [RSI |-> [k \in 1..Len(data) |-> RsiValue(data, k, period)],
     signals |-> [k \in 1..Len(data) |-> RsiSignal(RsiValue(data, k, period))],
     bearish_divergence |-> [k \in 1..Len(data) |-> 0],
     bullish_divergence |-> [k \in 1..Len(data) |-> 0]]

AdvancedRsi(data, period) ==
    IF DivergenceRaises(data, period)
    THEN RsiDefaultResult(data)
    ELSE RsiComputedResult(data, period)

RsiInit ==
    /\ rsi_data = <<>>
    /\ rsi_period = RsiDefaultPeriod
    /\ rsi_result = None

calculate_advanced_rsi ==
    \E data \in RsiInputs, period \in RsiPeriods :
        /\ rsi_result = None
        /\ rsi_data' = data
        /\ rsi_period' = period
        /\ rsi_result' = AdvancedRsi(data, period)


(***************************************************************************)
(* Indicator library: TechnicalIndicators.calculate_support_resistance     *)
(***************************************************************************)
MaxSrLen == 5           \* longest candle series drawn
MaxSrPrice == 2         \* lows and highs are 1..MaxSrPrice
MaxSrWindow == 2        \* window is drawn from 0..MaxSrWindow
DefaultNumTouches == 2  \* num_touches = 2
TouchPerMille == 2      \* abs(low - level_price) <= level_price * 0.002

SrCandles ==
    {[low |-> l, high |-> h] : l \in 1..MaxSrPrice, h \in 1..MaxSrPrice}
SrValidCandles == {c \in SrCandles : c.low <= c.high}
SrInputs(n) == [1..n -> SrValidCandles]
SrTouchChoices == {1, DefaultNumTouches}

\* is_support(df, i) and is_resistance(df, i) for the 0-based row i (row
\* i + 1 of the sequence); the loop runs over range(i - window, i + window),
\* which leaves row i + window out
IsSupport(data, i, window) ==
    /\ i - window >= 0
    /\ i + window < Len(data)
    /\ \A j \in (i - window)..(i + window - 1) : ~(data[j + 1].low < data[i + 1].low)
IsResistance(data, i, window) ==
    /\ i - window >= 0
    /\ i + window < Len(data)
    /\ \A j \in (i - window)..(i + window - 1) : ~(data[j + 1].high > data[i + 1].high)

RECURSIVE PotentialLevels(_, _, _, _)
\* levels after the rows a..b (0-based) of range(window, len(data) - window)
PotentialLevels(data, window, a, b) ==
    IF a > b THEN <<>>
    ELSE PotentialLevels(data, window, a, b - 1)
         \o (IF IsSupport(data, b, window)
             THEN <<[price |-> data[b + 1].low, type |-> "support"]>>
             ELSE IF IsResistance(data, b, window)
                  THEN <<[price |-> data[b + 1].high, type |-> "resistance"]>>
                  ELSE <<>>)

\* the rows whose low (support) or high (resistance) lies within 0.2% of
\* the level
Touches(data, level) ==
    Cardinality({i \in 1..Len(data) :
        1000 * Abs((IF level.type = "support" THEN data[i].low ELSE data[i].high)
                       - level.price)
            <= TouchPerMille * level.price})

\* support_levels or resistance_levels, as appended
ConfirmedLevels(data, levels, type, num_touches) ==
    LET kept == SelectSeq(levels, LAMBDA l : l.type = type
                                             /\ Touches(data, l) >= num_touches)
    IN  [k \in 1..Len(kept) |-> kept[k].price]

RECURSIVE AscendingSeq(_)
AscendingSeq(S) ==
    IF S = {} THEN <<>>
    ELSE LET m == CHOOSE x \in S : \A y \in S : x <= y
         IN  <<m>> \o AscendingSeq(S \ {m})

\* the list returned as it was appended
AppendedLevels(prices) == prices

\* sorted(list(set(support_levels)))
SortedLevels(prices) == AscendingSeq({prices[k] : k \in DOMAIN prices})

\* calculate_support_resistance(data, window, num_touches); nothing in the
\* try block raises for a frame of numbers
CalculateSupportResistance(data, window, num_touches) ==
    LET levels == PotentialLevels(data, window, window, Len(data) - window - 1) IN
    [support |-> SortedLevels(ConfirmedLevels(data, levels, "support", num_touches)),
     resistance |-> SortedLevels(ConfirmedLevels(data, levels, "resistance", num_touches))]

SrInit ==
    /\ sr_data = <<>>
    /\ sr_window = 0
    /\ sr_touches = DefaultNumTouches
    /\ sr_result = None

calculate_support_resistance ==
    /\ sr_result = None
    /\ \E n \in 0..MaxSrLen, window \in 0..MaxSrWindow, num_touches \in SrTouchChoices :
      \E data \in SrInputs(n) :
        /\ sr_data' = data
        /\ sr_window' = window
        /\ sr_touches' = num_touches
        /\ sr_result' = CalculateSupportResistance(data, window, num_touches)
(***************************************************************************)
(* Order book analyzer: MarketAnalyzer.analyze_order_book_depth            *)
(***************************************************************************)
MaxDepthLevels == 2     \* levels drawn per side
DepthPrices == {99, 100, 101}
DepthQtys == {0, 1, 50}
WallFactor == 2         \* a wall holds more than 2x the side's mean quantity
ZoneThresholdInv == 10  \* volume_threshold = 0.1 = 1/ZoneThresholdInv

Level(p, q) == [price |-> p, quantity |-> q]
DepthLevels == {Level(p, q) : p \in DepthPrices, q \in DepthQtys}

\* bids come best (highest) first, asks best (lowest) first
BidSides ==
    {s \in SeqsUpTo(DepthLevels, MaxDepthLevels) :
        \A i \in 1..(Len(s) - 1) : s[i].price > s[i+1].price}
AskSides ==
    {s \in SeqsUpTo(DepthLevels, MaxDepthLevels) :
        \A i \in 1..(Len(s) - 1) : s[i].price < s[i+1].price}

\* what client._make_request('depth', ...) answers: None on any failure,
\* otherwise the exchange's snapshot
DepthResponses ==
    {None} \cup {[bids |-> b, asks |-> a] : b \in BidSides, a \in AskSides}

Quantities(side) == [i \in 1..Len(side) |-> side[i].quantity]

\* rows whose quantity > mean quantity * 2
Walls(side) ==
    SelectSeq(side,
        LAMBDA l : l.quantity * Len(side) > WallFactor * SumSeq(Quantities(side)))

\* the loop of _identify_liquidity_zones from row i on: cur is current_zone
RECURSIVE ZoneLoop(_, _, _, _, _)
ZoneLoop(side, i, total, cur, zones) ==
    IF i > Len(side) THEN zones
    ELSE LET vol == cur.volume + side[i].quantity IN
         IF ZoneThresholdInv * vol >= total
         THEN ZoneLoop(side, i + 1, total,
                       [start_price |-> side[i].price, volume |-> 0],
                       Append(zones, [start_price |-> cur.start_price,
                                      end_price |-> side[i].price,
                                      volume |-> vol]))
         ELSE ZoneLoop(side, i + 1, total,
                       [start_price |-> cur.start_price, volume |-> vol], zones)

IdentifyLiquidityZones(side) ==
    IF side = <<>> THEN <<>>
    ELSE IF SumSeq(Quantities(side)) = 0 THEN <<>>
    ELSE ZoneLoop(side, 1, SumSeq(Quantities(side)),
                  [start_price |-> side[1].price, volume |-> 0], <<>>)

\* float('inf')
Infinity == [inf |-> TRUE]

\* the spread taken relative to the best bid instead of the mid-price
SpreadPercentageOfBid(bestBid, bestAsk) ==
    Frac(100 * (bestAsk - bestBid), bestBid)

\* spread_percentage = (spread / mid_price) * 100, mid_price = (bid + ask) / 2
SpreadPercentage(bestBid, bestAsk) ==
    Frac(2 * 100 * (bestAsk - bestBid), bestBid + bestAsk)

AnalyzeOrderBookDepth(resp) ==
    IF resp = None THEN None
    ELSE IF resp.bids = <<>> \/ resp.asks = <<>> THEN None
    ELSE
        LET bestBid == resp.bids[1].price
            bestAsk == resp.asks[1].price
            bid_volume == SumSeq(Quantities(resp.bids))
            ask_volume == SumSeq(Quantities(resp.asks))
            total_volume == bid_volume + ask_volume
        IN  [mid_price |-> Frac(bestBid + bestAsk, 2),
             spread |-> bestAsk - bestBid,
             spread_percentage |-> SpreadPercentage(bestBid, bestAsk),
             bid_ask_ratio |-> IF ask_volume > 0
                               THEN Frac(bid_volume, ask_volume) ELSE Infinity,
             bid_volume |-> bid_volume,
             ask_volume |-> ask_volume,
             total_volume |-> total_volume,
             buy_pressure |-> IF total_volume > 0
                              THEN Frac(100 * bid_volume, total_volume)
                              ELSE Frac(50, 1),
             sell_pressure |-> IF total_volume > 0
                               THEN Frac(100 * ask_volume, total_volume)
                               ELSE Frac(50, 1),
             bid_walls |-> Walls(resp.bids),
             ask_walls |-> Walls(resp.asks),
             liquidity_zones |-> [bids |-> IdentifyLiquidityZones(resp.bids),
                                  asks |-> IdentifyLiquidityZones(resp.asks)]]

\* depth is Unasked until the first request is answered
Unasked == [unasked |-> TRUE]

DepthInit ==
    /\ depth = Unasked
    /\ order_book = None

analyze_order_book_depth ==
    \E resp \in DepthResponses :
        /\ depth = Unasked
        /\ depth' = resp
        /\ order_book' = AnalyzeOrderBookDepth(resp)

(***************************************************************************)
(* Indicator library: TechnicalIndicators.calculate_volume_profile         *)
(***************************************************************************)
MaxVpCandles == 2       \* longest candle series drawn
MaxVpPrice == 3         \* prices are 1..MaxVpPrice
MaxVpVolume == 2        \* volumes are 0..MaxVpVolume
MaxVpLevels == 4        \* price_levels is drawn from 2..MaxVpLevels
EqualPricePadInv == 1000        \* price_max = price_min * 1.001
EqualHighLowPadInv == 100000    \* high = low * 1.00001
ValueAreaTenths == 7            \* value_area_volume = total_volume * 0.7

Candle(l, h, c, v) == [low |-> l, high |-> h, close |-> c, volume |-> v]
\* a candle has low <= close <= high
VpCandles ==
    {Candle(l, h, c, v) : l \in 1..MaxVpPrice, h \in 1..MaxVpPrice,
                          c \in 1..MaxVpPrice, v \in 0..MaxVpVolume}
VpValidCandles == {c \in VpCandles : c.low <= c.close /\ c.close <= c.high}
VpInputs == SeqsUpTo(VpValidCandles, MaxVpCandles)
VpLevelChoices == 2..MaxVpLevels

RECURSIVE MinOver(_, _)
MinOver(f, S) ==
    LET x == CHOOSE y \in S : TRUE IN
    IF S = {x} THEN f[x] ELSE Min2(f[x], MinOver(f, S \ {x}))
RECURSIVE MaxOver(_, _)
MaxOver(f, S) ==
    LET x == CHOOSE y \in S : TRUE IN
    IF S = {x} THEN f[x] ELSE Max2(f[x], MaxOver(f, S \ {x}))

RECURSIVE Gcd(_, _)
Gcd(a, b) == IF b = 0 THEN a ELSE Gcd(b, a % b)
RECURSIVE LcmUpTo(_)
LcmUpTo(k) == IF k <= 1 THEN 1
              ELSE LET m == LcmUpTo(k - 1) IN (m * k) \div Gcd(m, k)

\* price_min = min(low.min(), close.min()), price_max = max(high.max(), close.max())
VpPriceMin(data) ==
    Min2(MinOver([i \in 1..Len(data) |-> data[i].low], 1..Len(data)),
         MinOver([i \in 1..Len(data) |-> data[i].close], 1..Len(data)))
VpPriceMax(data) ==
    Max2(MaxOver([i \in 1..Len(data) |-> data[i].high], 1..Len(data)),
         MaxOver([i \in 1..Len(data) |-> data[i].close], 1..Len(data)))

\* price_max - price_min, after the padding of an empty range
VpRange(data) ==
    IF VpPriceMin(data) = VpPriceMax(data)
    THEN Frac(VpPriceMin(data), EqualPricePadInv)
    ELSE Frac(VpPriceMax(data) - VpPriceMin(data), 1)

\* np.linspace(price_min, price_max, price_levels)[j], j = 0..price_levels-1
BinPrice(data, levels, j) ==
    IF levels = 1 THEN Frac(VpPriceMin(data), 1)
    ELSE LET r == VpRange(data) IN
         Frac(VpPriceMin(data) * r.den * (levels - 1) + j * r.num,
              r.den * (levels - 1))

\* the candle's high, after the padding of high == low
PaddedHigh(c) ==
    IF c.high = c.low THEN Frac((EqualHighLowPadInv + 1) * c.low, EqualHighLowPadInv)
    ELSE Frac(c.high, 1)

\* if low <= price <= high
BinInCandle(data, levels, j, c) ==
    /\ FracLe(Frac(c.low, 1), BinPrice(data, levels, j))
    /\ FracLe(BinPrice(data, levels, j), PaddedHigh(c))

\* Bin volumes are kept in units of 1/VpScale: VpScale times every share
\* vol / ((high - low) / price_delta) the code adds is an integer.
VpScale(data, levels) == VpRange(data).den * levels * LcmUpTo(MaxVpPrice)

\* vol / ((high - low) / price_delta), price_delta = (price_max - price_min)
\* / price_levels, in units of 1/VpScale
CandleShare(data, levels, c) ==
    IF c.high = c.low
    THEN (c.volume * VpRange(data).num * EqualHighLowPadInv * LcmUpTo(MaxVpPrice))
             \div c.low
    ELSE (c.volume * VpRange(data).num * LcmUpTo(MaxVpPrice))
             \div (c.high - c.low)

\* volume_profile.loc[price] after the loop over the candles
BinVolume(data, levels, j) ==
    SumOver([i \in 1..Len(data) |->
                IF BinInCandle(data, levels, j, data[i])
                THEN CandleShare(data, levels, data[i]) ELSE 0],
            1..Len(data))

VolumeProfileBins(data, levels) ==
    [j \in 0..(levels - 1) |-> BinVolume(data, levels, j)]

\* volume_profile.idxmax(): the first bin holding the maximum
IdxMax(bins) ==
    CHOOSE j \in DOMAIN bins :
        /\ \A k \in DOMAIN bins : bins[k] <= bins[j]
        /\ \A k \in DOMAIN bins : bins[k] = bins[j] => j <= k

\* The orders volume_profile.sort_values(ascending=False) may visit the bins
\* in: descending volume; the default sort is not stable, so bins of equal
\* volume come in any order.
DescendingOrders(bins) ==
    {o \in [1..Cardinality(DOMAIN bins) -> DOMAIN bins] :
        /\ \A a, b \in DOMAIN o : a # b => o[a] # o[b]
        /\ \A a \in 1..(Cardinality(DOMAIN bins) - 1) : bins[o[a]] >= bins[o[a+1]]}

\* the bins taken in that order before the first one taken at position k
RECURSIVE CumUpTo(_, _, _)
CumUpTo(bins, order, k) ==
    IF k = 0 THEN 0 ELSE bins[order[k]] + CumUpTo(bins, order, k - 1)

\* value_area_prices: bins are appended until the cumulative volume reaches
\* 70% of the total (the bin that reaches it included)
ValueAreaBins(bins, order) ==
    LET total == SumOver(bins, DOMAIN bins)
        reached(k) == 10 * CumUpTo(bins, order, k) >= ValueAreaTenths * total
        stop == CHOOSE k \in DOMAIN order :
                    /\ reached(k) \/ k = Len(order)
                    /\ \A m \in 1..(k - 1) : ~reached(m)
    IN  {order[k] : k \in 1..stop}

\* the result of the try branch, for one order of the sort
VolumeProfileResult(data, levels, order) ==
    LET bins == VolumeProfileBins(data, levels)
        area == ValueAreaBins(bins, order)
        hi   == CHOOSE j \in area : \A k \in area : k <= j
        lo   == CHOOSE j \in area : \A k \in area : j <= k
    IN  [volume_profile |-> bins,
         poc |-> BinPrice(data, levels, IdxMax(bins)),
         value_area_high |-> BinPrice(data, levels, hi),
         value_area_low |-> BinPrice(data, levels, lo)]

\* the except branch; it is taken for the empty series only (a non-empty
\* series of finite candles raises nothing)
VolumeProfileDefault(data) ==
    [volume_profile |-> <<>>,
     poc |-> IF Len(data) > 0
             THEN Frac(SumSeq([i \in 1..Len(data) |-> data[i].close]), Len(data))
             ELSE Frac(0, 1),
     value_area_high |-> IF Len(data) > 0
             THEN Frac(MaxOver([i \in 1..Len(data) |-> data[i].high], 1..Len(data)), 1)
             ELSE Frac(0, 1),
     value_area_low |-> IF Len(data) > 0
             THEN Frac(MinOver([i \in 1..Len(data) |-> data[i].low], 1..Len(data)), 1)
             ELSE Frac(0, 1)]

VpInit ==
    /\ vp_data = <<>>
    /\ vp_levels = MaxVpLevels
    /\ vp_result = None

calculate_volume_profile ==
    \E data \in VpInputs, levels \in VpLevelChoices :
        /\ vp_result = None
        /\ vp_data' = data
        /\ vp_levels' = levels
        /\ IF Len(data) = 0
           THEN vp_result' = VolumeProfileDefault(data)
           ELSE \E order \in DescendingOrders(VolumeProfileBins(data, levels)) :
                    vp_result' = VolumeProfileResult(data, levels, order)


(***************************************************************************)
(* MarketAnalyzer: the candle cache and get_multi_timeframe_data           *)
(***************************************************************************)
MaxTicks == 2           \* the clock stops after MaxTicks * CacheTtl seconds
MaxCacheBars == 1       \* longest series the collaborator answers with
MaxCachePrice == 2      \* its candles have a price in 1..MaxCachePrice
CacheTtl == 3600        \* total_seconds() < 3600

\* the symbol is fixed; one cache file per timeframe
CacheKeys == {"1h", "4h", "1d"}

\* A DataFrame: its rows, and whether its index holds pandas Timestamps (as
\* in every frame of BinanceFuturesClient and every frame read back from the
\* cache) or plain JSON values.
Frame(bars, kind) == [bars |-> bars, kind |-> kind]
FrameKinds == {"plain", "timestamped"}

\* the content of a cache file
Absent == [absent |-> TRUE]
Corrupt == [corrupt |-> TRUE]
CacheFile(t, df) == [last_updated |-> t, data |-> df]

\* the last row is missing from the file written
SaveToCacheTruncated(df, t) ==
    IF df.kind = "plain"
    THEN CacheFile(t, [df EXCEPT !.bars = SubSeq(@, 1, Len(@) - 1)])
    ELSE Corrupt

\* _save_to_cache: the file is opened for writing; json.dump writes the
\* frame with an index of plain values, and on meeting a Timestamp it raises,
\* which leaves a truncated file (the exception is swallowed).
SaveToCache(df, t) ==
    IF df.kind = "plain" THEN CacheFile(t, df) ELSE Corrupt

\* _load_from_cache, for the clock reading t: the rows of the file, under the
\* index pd.to_datetime makes of the timestamp column
LoadFromCacheWithin(file, t) ==
    IF file = Absent \/ file = Corrupt THEN None
    ELSE IF t - file.last_updated <= CacheTtl /\ file.data.bars # <<>>
         THEN [file.data EXCEPT !.kind = "timestamped"]
         ELSE None
LoadFromCache(file, t) ==
    IF file = Absent \/ file = Corrupt THEN None
    ELSE IF t - file.last_updated < CacheTtl /\ file.data.bars # <<>>
         THEN [file.data EXCEPT !.kind = "timestamped"]
         ELSE None

\* data[tf] = df
Put(dict, key, value) ==
    [k \in (DOMAIN dict) \cup {key} |-> IF k = key THEN value ELSE dict[k]]
EmptyDict == [k \in {} |-> None]

RECURSIVE MtfLoopGivingUp(_, _, _, _)
\* the loop ending at the first timeframe the client has nothing for
MtfLoopGivingUp(tfs, resp, t, st) ==
    IF tfs = <<>> THEN st
    ELSE LET tf == Head(tfs)
             df == LoadFromCache(st.cache[tf], t)
             fetched == resp[tf]
         IN  IF df # None
             THEN MtfLoopGivingUp(Tail(tfs), resp, t, [st EXCEPT !.data = Put(@, tf, df)])
             ELSE IF fetched # None /\ fetched.bars # <<>>
                  THEN MtfLoopGivingUp(Tail(tfs), resp, t,
                           [cache |-> [st.cache EXCEPT ![tf] = SaveToCache(fetched, t)],
                            data  |-> Put(st.data, tf, fetched),
                            calls |-> st.calls \cup {tf}])
                  ELSE [st EXCEPT !.calls = @ \cup {tf}]

\* The loop of get_multi_timeframe_data over the timeframes tfs, resp[tf]
\* being what client.get_market_data answers for tf if it is asked. st holds
\* the cache files, the dictionary built so far and the timeframes the
\* client was asked for.
RECURSIVE MtfLoop(_, _, _, _)
MtfLoop(tfs, resp, t, st) ==
    IF tfs = <<>> THEN st
    ELSE LET tf == Head(tfs)
             df == LoadFromCache(st.cache[tf], t)
             fetched == resp[tf]
             next ==
                 IF df # None
                 THEN [st EXCEPT !.data = Put(@, tf, df)]
                 ELSE IF fetched # None /\ fetched.bars # <<>>
                      THEN [cache |-> [st.cache EXCEPT ![tf] = SaveToCache(fetched, t)],
                            data  |-> Put(st.data, tf, fetched),
                            calls |-> st.calls \cup {tf}]
                      ELSE [st EXCEPT !.calls = @ \cup {tf}]
         IN  MtfLoop(Tail(tfs), resp, t, next)

\* get_multi_timeframe_data returning at the first timeframe without data
GetMultiTimeframeDataGivingUp(files, tfs, resp, t) ==
    MtfLoopGivingUp(tfs, resp, t, [cache |-> files, data |-> EmptyDict, calls |-> {}])

\* get_multi_timeframe_data(symbol, timeframes)
GetMultiTimeframeData(files, tfs, resp, t) ==
    MtfLoop(tfs, resp, t, [cache |-> files, data |-> EmptyDict, calls |-> {}])

SeqRange(s) == {s[i] : i \in DOMAIN s}

CacheCandles == {Candle(p, p, p, 1) : p \in 1..MaxCachePrice}
CacheSeries == SeqsUpTo(CacheCandles, MaxCacheBars)
\* what client.get_market_data may answer
CacheResponses == {None} \cup {Frame(b, k) : b \in CacheSeries, k \in FrameKinds}
\* the timeframes arguments drawn
MtfRequests == {<<"1h">>, <<"4h">>, <<"1h", "4h">>}

CacheInit ==
    /\ cache = [k \in CacheKeys |-> Absent]
    /\ now = 0
    /\ mtf_request = <<>>
    /\ mtf_data = EmptyDict
    /\ client_calls = {}
    /\ client_answers = EmptyDict
    /\ profiles = None

\* datetime.now() moves on between two calls
Tick ==
    /\ \E d \in {CacheTtl - 1, CacheTtl} :
           /\ now + d <= MaxTicks * CacheTtl
           /\ now' = now + d
    /\ UNCHANGED <<cache, mtf_request, mtf_data, client_calls, client_answers, profiles>>

get_multi_timeframe_data ==
    \E tfs \in MtfRequests : \E resp \in [SeqRange(tfs) -> CacheResponses] :
        LET st == GetMultiTimeframeData(cache, tfs, resp, now) IN
        /\ cache' = st.cache
        /\ mtf_request' = tfs
        /\ mtf_data' = st.data
        /\ client_calls' = st.calls
        /\ client_answers' = [tf \in st.calls |-> resp[tf]]
        /\ UNCHANGED <<now, profiles>>

(***************************************************************************)
(* MarketAnalyzer.analyze_volume_profile                                   *)
(***************************************************************************)
MaxMaBars == 2          \* longest series the collaborator answers with
MaxMaPrice == 2         \* prices are 1..MaxMaPrice
MaxMaVolume == 2        \* volumes are 0..MaxMaVolume
MaxMaBins == 3          \* num_bins is drawn from 2..MaxMaBins
MaPadInv == 1000        \* price_max *= 1.001, price_min *= 0.999
MaValueAreaTenths == 7  \* cumsum_volume <= total_volume * 0.7

MaCandles ==
    {c \in {Candle(l, h, cl, v) : l \in 1..MaxMaPrice, h \in 1..MaxMaPrice,
                                  cl \in 1..MaxMaPrice, v \in 0..MaxMaVolume} :
        c.low <= c.close /\ c.close <= c.high}
MaSeries == SeqsUpTo(MaCandles, MaxMaBars)
MaResponses == {None} \cup {Frame(b, k) : b \in MaSeries, k \in FrameKinds}
MaBinChoices == 2..MaxMaBins

MaLowMin(bars) == MinOver([i \in 1..Len(bars) |-> bars[i].low], 1..Len(bars))
MaHighMax(bars) == MaxOver([i \in 1..Len(bars) |-> bars[i].high], 1..Len(bars))

\* price_min and price_max after the buffer, in units of 1/MaPadInv
MaPriceMin(bars) ==
    IF MaLowMin(bars) = MaHighMax(bars)
    THEN Frac((MaPadInv - 1) * MaLowMin(bars), MaPadInv)
    ELSE Frac(MaPadInv * MaLowMin(bars), MaPadInv)
MaPriceMax(bars) ==
    IF MaLowMin(bars) = MaHighMax(bars)
    THEN Frac((MaPadInv + 1) * MaHighMax(bars), MaPadInv)
    ELSE Frac(MaPadInv * MaHighMax(bars), MaPadInv)

\* np.linspace(price_min, price_max, num_bins)[j], j = 0..num_bins-1, for
\* lo = price_min and hi = price_max in units of 1/MaPadInv
MaPriceRange(lo, hi, n, j) ==
    Frac(lo.num * (n - 1) + j * (hi.num - lo.num), MaPadInv * (n - 1))

\* np.digitize(price, price_range) - 1: the number of bin edges
\* price_min + j * (price_max - price_min) / (num_bins - 1) not above price,
\* less one
MaBinIdx(bars, n, price) ==
    LET lo  == MaPriceMin(bars).num
        hi  == MaPriceMax(bars).num
        off == price * MaPadInv - lo
    IN  IF off < 0 THEN 0 - 1
        ELSE Min2(n - 1, (off * (n - 1)) \div (hi - lo))

\* volume_profile after the loop over the rows. The lists of a profile are
\* sequences: bin j of the code is entry j + 1.
MaVolumeBins(bars, n) ==
    LET idx == SubSeq([i \in 1..Len(bars) |-> MaBinIdx(bars, n, bars[i].close)],
                      1, Len(bars))
    IN  SubSeq([k \in 1..n |->
                   SumSeq([i \in 1..Len(bars) |->
                              IF idx[i] = k - 1 THEN bars[i].volume ELSE 0])],
               1, n)

\* the sum of entries a..b of a sequence
RECURSIVE SumFromTo(_, _, _)
SumFromTo(s, a, b) ==
    IF a > b THEN 0
    ELSE IF a = b THEN s[a]
    ELSE SumFromTo(s, a, (a + b) \div 2) + SumFromTo(s, (a + b) \div 2 + 1, b)

\* np.argmax over entries a..b: the first entry holding the maximum
RECURSIVE MaArgMax(_, _, _)
MaArgMax(bins, a, b) ==
    IF a = b THEN a
    ELSE LET l == MaArgMax(bins, a, (a + b) \div 2)
             r == MaArgMax(bins, (a + b) \div 2 + 1, b)
         IN  IF bins[r] > bins[l] THEN r ELSE l

\* The orders np.argsort(volume_profile)[::-1] may put the bins that hold
\* volume in: descending volume, bins of equal volume in any order (argsort's
\* default sort is not stable). The empty bins follow them; the cumulative
\* volume is the whole total there, which is above 70% of it, so no empty
\* bin is ever selected and their order is left out.
MaSortedIdx(bins) ==
    LET held == {k \in DOMAIN bins : bins[k] > 0} IN
    {o \in [1..Cardinality(held) -> held] :
        /\ \A a, b \in DOMAIN o : a # b => o[a] # o[b]
        /\ \A a \in 1..(Cardinality(held) - 1) : bins[o[a]] >= bins[o[a+1]]}

\* sorted_idx[cumsum_volume <= total_volume * 0.7]
MaValueAreaIdx(bins, order) ==
    LET total == SumFromTo(bins, 1, Len(bins)) IN
    {order[k] : k \in {m \in DOMAIN order :
        10 * CumUpTo(bins, order, m) <= MaValueAreaTenths * total}}

\* the profile of one timeframe, try branch
MaProfileResult(bars, n, order) ==
    LET lo   == MaPriceMin(bars)
        hi   == MaPriceMax(bars)
        bins == MaVolumeBins(bars, n)
        area == MaValueAreaIdx(bins, order)
        top  == CHOOSE k \in area : \A m \in area : m <= k
        bot  == CHOOSE k \in area : \A m \in area : k <= m
    IN  [price_levels |-> [k \in 1..n |-> MaPriceRange(lo, hi, n, k - 1)],
         volume_profile |-> bins,
         poc |-> MaPriceRange(lo, hi, n, MaArgMax(bins, 1, n) - 1),
         value_area_high |-> IF area = {} THEN hi
                             ELSE MaPriceRange(lo, hi, n, top - 1),
         value_area_low |-> IF area = {} THEN lo
                            ELSE MaPriceRange(lo, hi, n, bot - 1),
         total_volume |-> SumFromTo(bins, 1, n)]

\* _get_default_profile, for a non-empty frame
MaDefaultProfile(bars) ==
    [price_levels |-> <<>>,
     volume_profile |-> <<>>,
     poc |-> Frac(SumSeq([i \in 1..Len(bars) |-> bars[i].close]), Len(bars)),
     value_area_high |-> Frac(MaHighMax(bars), 1),
     value_area_low |-> Frac(MaLowMin(bars), 1),
     total_volume |-> SumSeq([i \in 1..Len(bars) |-> bars[i].volume])]

\* the profiles one timeframe may get: ValueError("No volume data
\* available") leads to the default profile
MaTimeframeProfiles(bars, n) ==
    LET bins == MaVolumeBins(bars, n) IN
    IF SumFromTo(bins, 1, n) = 0
    THEN {MaDefaultProfile(bars)}
    ELSE {MaProfileResult(bars, n, o) : o \in MaSortedIdx(bins)}

\* the profiles dictionaries the loop over data_dict may build, tfs being
\* the timeframes asked for
RECURSIVE AnalyzeVolumeProfile(_, _, _)
AnalyzeVolumeProfile(tfs, data, n) ==
    IF tfs = <<>> THEN {EmptyDict}
    ELSE IF Head(tfs) \notin DOMAIN data THEN AnalyzeVolumeProfile(Tail(tfs), data, n)
    ELSE {Put(rest, Head(tfs), p) :
             rest \in AnalyzeVolumeProfile(Tail(tfs), data, n),
             p \in MaTimeframeProfiles(data[Head(tfs)].bars, n)}

analyze_volume_profile ==
    \E tf \in CacheKeys, resp \in MaResponses, n \in MaBinChoices :
        LET st == GetMultiTimeframeData(cache, <<tf>>, [k \in {tf} |-> resp], now) IN
        /\ profiles = None
        /\ \E p \in AnalyzeVolumeProfile(<<tf>>, st.data, n) : profiles' = p
        /\ cache' = st.cache
        /\ mtf_request' = <<tf>>
        /\ mtf_data' = st.data
        /\ client_calls' = st.calls
        /\ client_answers' = [k \in st.calls |-> resp]
        /\ UNCHANGED now

(***************************************************************************)
(* HistoricalAnalyzer: the walk-forward backtest                           *)
(***************************************************************************)
MIN_DATA_POINTS == 50
MIN_PREDICTION_POINTS == 24
MaxBtBars == 76         \* longest market_data drawn
LongTpPct == 102        \* tp = entry * 1.02 for long
LongSlPct == 99         \* sl = entry * 0.99 for long
ShortTpPct == 98        \* tp = entry * 0.98 for short
ShortSlPct == 101       \* sl = entry * 1.01 for short
TrendShortWindow == 20  \* sma20
TrendLongWindow == 50   \* sma50, and the rows _calculate_trend requires

\* the cells of market_data: a finite number, or NaN (a missing value or a
\* text that to_numeric coerces), or an infinity
Num(x) == [value |-> x]
NaN == [nan |-> TRUE]
Inf == [inf |-> TRUE]
BtColumns == {"close", "high", "low", "volume"}

\* one row of market_data; ts is its index label (here its position)
BtRow(ts, b) ==
    [ts |-> ts, close |-> b.close, high |-> b.high, low |-> b.low,
     volume |-> b.volume]
BtBar(c, h, l, v) == [close |-> c, high |-> h, low |-> l, volume |-> v]

\* the kinds of row drawn: quiet, rallying, falling, a row whose cells are
\* all missing, a row with an infinite close
BtBars ==
    {BtBar(Num(100), Num(100), Num(100), Num(1)),
     BtBar(Num(125), Num(127), Num(100), Num(3)),
     BtBar(Num(100), Num(125), Num(98), Num(2)),
     BtBar(NaN, NaN, NaN, NaN),
     BtBar(Inf, Num(100), Num(100), Num(1))}
BtLengths ==
    {0, MIN_DATA_POINTS - 1, MIN_DATA_POINTS,
     MIN_DATA_POINTS + MIN_PREDICTION_POINTS - 1}
        \cup ((MIN_DATA_POINTS + MIN_PREDICTION_POINTS)..MaxBtBars)
BtBreaks == {1, MIN_DATA_POINTS - 1, MIN_DATA_POINTS, MIN_DATA_POINTS + 1}
\* market_data of n rows: k rows of kind a, then rows of kind b
BtWindow(n, k, a, b) ==
    SubSeq([i \in 1..n |-> BtRow(i, IF i <= k THEN a ELSE b)], 1, n)
BtWindows ==
    {BtWindow(n, k, a, b) : n \in BtLengths, k \in BtBreaks, a \in BtBars, b \in BtBars}

\* analysis_results: without trade signals, with trade_signals None, with
\* the keys _generate_prediction reads, with the keys _generate_trade_signals
\* writes
BtAnalyses ==
    {[symbol |-> "BTCUSDT"],
     [trade_signals |-> None],
     [trade_signals |-> [direction |-> "long", confidence |-> 80]],
     [trade_signals |-> [direction |-> "short", confidence |-> 50]],
     [trade_signals |-> [recommended_direction |-> "long", confidence_score |-> 80]]}

\* one row filled from a neighbouring row: the NaN cells take its cells
FillFrom(row, other) ==
    [ts |-> row.ts,
     close |-> IF row.close = NaN THEN other.close ELSE row.close,
     high |-> IF row.high = NaN THEN other.high ELSE row.high,
     low |-> IF row.low = NaN THEN other.low ELSE row.low,
     volume |-> IF row.volume = NaN THEN other.volume ELSE row.volume]

\* a row without any value, for the fill of the first and of the last row
NoRow == [ts |-> 0, close |-> NaN, high |-> NaN, low |-> NaN, volume |-> NaN]

RECURSIVE Ffill(_, _, _, _)
\* data.fillna(method='ffill') over rows a..b, prev being the filled row
\* before row a
Ffill(data, a, b, prev) ==
    IF a > b THEN <<>>
    ELSE IF a = b THEN <<FillFrom(data[a], prev)>>
    ELSE LET m == (a + b) \div 2
             left == Ffill(data, a, m, prev)
         IN  left \o Ffill(data, m + 1, b, left[Len(left)])
Reverse(s) ==
    IF s = <<>> THEN <<>>
    ELSE SubSeq([i \in 1..Len(s) |-> s[Len(s) + 1 - i]], 1, Len(s))
\* data.fillna(method='bfill'): the forward fill of the rows in reverse order
Bfill(data) == Reverse(Ffill(Reverse(data), 1, Len(data), NoRow))

\* _clean_market_data: forward fill, then backward fill, every column; then
\* the rows that still hold a NaN or hold an infinity are dropped. The rows
\* that remain hold numbers.
CleanMarketData(data) ==
    LET forward == Ffill(data, 1, Len(data), NoRow)
        filled == Bfill(forward)
        finite(r) == \A c \in BtColumns : r[c] # NaN /\ r[c] # Inf
        kept == SelectSeq(filled, finite)
    IN  IF kept = <<>> THEN <<>>
        ELSE SubSeq([i \in 1..Len(kept) |->
                       [ts |-> kept[i].ts, close |-> kept[i].close.value,
                        high |-> kept[i].high.value, low |-> kept[i].low.value,
                        volume |-> kept[i].volume.value]], 1, Len(kept))

RECURSIVE SumCells(_, _, _, _)
\* the sum of column c over rows a..b
SumCells(data, c, a, b) ==
    IF a > b THEN 0
    ELSE IF a = b THEN data[a][c]
    ELSE SumCells(data, c, a, (a + b) \div 2)
            + SumCells(data, c, (a + b) \div 2 + 1, b)

\* _calculate_trend
CalculateTrend(data) ==
    IF Len(data) < TrendLongWindow THEN "unknown"
    ELSE LET n == Len(data)
             s20 == SumCells(data, "close", n - TrendShortWindow + 1, n)
             s50 == SumCells(data, "close", n - TrendLongWindow + 1, n)
         IN  IF s20 * TrendLongWindow > s50 * TrendShortWindow THEN "uptrend"
             ELSE IF s20 * TrendLongWindow < s50 * TrendShortWindow THEN "downtrend"
             ELSE "sideways"

Lcm2(a, b) == (a * b) \div Gcd(a, b)
\* a common denominator of the returns: closes are 100 or 125
ReturnScale == Lcm2(100, 125)
\* close.pct_change() at row i >= 2, in units of 1/ReturnScale
PctChange(data, i) ==
    ((data[i].close - data[i - 1].close) * ReturnScale) \div data[i - 1].close

RECURSIVE SumReturns(_, _, _, _)
\* the sum of the returns (sq = FALSE) or of their squares over rows a..b
SumReturns(data, a, b, sq) ==
    IF a > b THEN 0
    ELSE IF a = b
    THEN IF sq THEN PctChange(data, a) * PctChange(data, a) ELSE PctChange(data, a)
    ELSE SumReturns(data, a, (a + b) \div 2, sq)
            + SumReturns(data, (a + b) \div 2 + 1, b, sq)

\* returns.std() ** 2 (sample variance of the Len(data) - 1 returns); the
\* reported volatility is its square root times sqrt(252)
ReturnVariance(data) ==
    LET m == Len(data) - 1 IN
    Frac(m * SumReturns(data, 2, Len(data), TRUE)
            - SumReturns(data, 2, Len(data), FALSE) * SumReturns(data, 2, Len(data), FALSE),
         m * (m - 1) * ReturnScale * ReturnScale)

\* _analyze_market_conditions, for the two rows or more it is called with
AnalyzeMarketConditions(data) ==
    [volatility_sq |-> ReturnVariance(data),
     trend |-> CalculateTrend(data),
     volume_profile |->
        IF data[Len(data)].volume * Len(data) > SumCells(data, "volume", 1, Len(data))
        THEN "high" ELSE "low"]

\* analysis_results.get('trade_signals', {}).get(key)
SignalField(analysis, key, default) ==
    IF "trade_signals" \notin DOMAIN analysis THEN default
    ELSE IF key \in DOMAIN analysis.trade_signals THEN analysis.trade_signals[key]
    ELSE default

\* _generate_prediction for the rows before the cursor; None when
\* trade_signals is None (None has no get)
GeneratePrediction(data, analysis) ==
    IF Len(data) < MIN_DATA_POINTS THEN None
    ELSE IF "trade_signals" \in DOMAIN analysis /\ analysis.trade_signals = None
    THEN None
    ELSE LET long == SignalField(analysis, "direction", "") = "long"
             entry == data[Len(data)].close
         IN  [direction |-> IF long THEN "long" ELSE "short",
              confidence |-> SignalField(analysis, "confidence", 0),
              price_levels |->
                 [entry |-> Frac(entry, 1),
                  tp |-> Frac(entry * (IF long THEN LongTpPct ELSE ShortTpPct), 100),
                  sl |-> Frac(entry * (IF long THEN LongSlPct ELSE ShortSlPct), 100)],
              market_conditions |-> AnalyzeMarketConditions(data)]

\* the trend taken over the whole frame instead of the forward rows
GetActualOutcomeFrameTrend(data, i) ==
    IF Len(data) - i < MIN_PREDICTION_POINTS THEN None
    ELSE LET future == SubSeq(data, i + 1, i + MIN_PREDICTION_POINTS) IN
         [high |-> MaxOver([j \in 1..Len(future) |-> future[j].high], 1..Len(future)),
          low |-> MinOver([j \in 1..Len(future) |-> future[j].low], 1..Len(future)),
          close |-> future[Len(future)].close,
          trend |-> CalculateTrend(data)]

\* _get_actual_outcome at cursor i (0-based): rows i .. i + 23
GetActualOutcome(data, i) ==
    IF Len(data) - i < MIN_PREDICTION_POINTS THEN None
    ELSE LET future == SubSeq(data, i + 1, i + MIN_PREDICTION_POINTS) IN
         [high |-> MaxOver([j \in 1..Len(future) |-> future[j].high], 1..Len(future)),
          low |-> MinOver([j \in 1..Len(future) |-> future[j].low], 1..Len(future)),
          close |-> future[Len(future)].close,
          trend |-> CalculateTrend(future)]

\* success as soon as the take-profit level is reached
EvaluatePredictionTpOnly(prediction, actual) ==
    IF prediction.direction = "long"
    THEN FracLe(prediction.price_levels.tp, Frac(actual.high, 1))
    ELSE FracLe(Frac(actual.low, 1), prediction.price_levels.tp)

\* _evaluate_prediction
EvaluatePrediction(prediction, actual) ==
    IF prediction.direction = "long"
    THEN /\ FracLe(prediction.price_levels.tp, Frac(actual.high, 1))
         /\ FracLe(prediction.price_levels.sl, Frac(actual.low, 1))
    ELSE /\ FracLe(Frac(actual.low, 1), prediction.price_levels.tp)
         /\ FracLe(Frac(actual.high, 1), prediction.price_levels.sl)

\* the record appended at cursor i (0-based) of the cleaned rows
PredictionRecord(data, analysis, i) ==
    LET prediction == GeneratePrediction(SubSeq(data, 1, i), analysis)
        actual == GetActualOutcome(data, i)
    IN  [timestamp |-> data[i + 1].ts,
         predicted |-> prediction,
         actual |-> actual,
         success |-> EvaluatePrediction(prediction, actual)]

\* the loop breaking one cursor early (i + MIN_PREDICTION_POINTS >= len)
CursorsBreakEarly(data) == MIN_DATA_POINTS..(Len(data) - MIN_PREDICTION_POINTS - 1)

\* the cursors that reach the append: the loop breaks at the first i with
\* i + MIN_PREDICTION_POINTS > len and skips i < MIN_DATA_POINTS
Cursors(data) == MIN_DATA_POINTS..(Len(data) - MIN_PREDICTION_POINTS)

\* results['predictions'] after the loop
Predictions(data, analysis) ==
    IF Cursors(data) = {} \/ GeneratePrediction(SubSeq(data, 1, MIN_DATA_POINTS), analysis) = None
    THEN <<>>
    ELSE SubSeq([k \in 1..Cardinality(Cursors(data)) |->
                    PredictionRecord(data, analysis, MIN_DATA_POINTS + k - 1)],
                1, Cardinality(Cursors(data)))

Count(s, P(_)) == Cardinality({k \in DOMAIN s : P(s[k])})
\* (part / whole) * 100 if whole else 0
PctOf(part, whole) == IF whole = 0 THEN Frac(0, 1) ELSE Frac(100 * part, whole)

\* _calculate_accuracy_metrics
CalculateAccuracyMetrics(preds) ==
    LET ok(p) == p.success
        long(p) == p.predicted.direction = "long"
        short(p) == p.predicted.direction = "short"
        hi(p) == p.predicted.confidence >= 75
        lo(p) == p.predicted.confidence < 75
        okLong(p) == ok(p) /\ long(p)
        okShort(p) == ok(p) /\ short(p)
        okHi(p) == ok(p) /\ hi(p)
        okLo(p) == ok(p) /\ lo(p)
    IN  [overall_accuracy |-> PctOf(Count(preds, ok), Len(preds)),
         long_accuracy |-> PctOf(Count(preds, okLong), Count(preds, long)),
         short_accuracy |-> PctOf(Count(preds, okShort), Count(preds, short)),
         high_confidence_accuracy |-> PctOf(Count(preds, okHi), Count(preds, hi)),
         low_confidence_accuracy |-> PctOf(Count(preds, okLo), Count(preds, lo))]

\* ((level - entry) / entry) * 100, a whole number of percent for the
\* levels _generate_prediction sets
RoiPct(level, entry) ==
    ((level.num * entry.den - entry.num * level.den) * 100)
        \div (entry.num * level.den)

\* the roi appended to wins or to losses for one record
RecordRoi(p) ==
    IF p.success
    THEN RoiPct(p.predicted.price_levels.tp, p.predicted.price_levels.entry)
    ELSE RoiPct(p.predicted.price_levels.sl, p.predicted.price_levels.entry)

RECURSIVE SumRoi(_, _, _)
\* the sum of the roi of the first k records with success = won
SumRoi(preds, k, won) ==
    IF k = 0 THEN 0
    ELSE (IF preds[k].success = won THEN RecordRoi(preds[k]) ELSE 0)
            + SumRoi(preds, k - 1, won)

\* _calculate_roi_metrics
CalculateRoiMetrics(preds) ==
    LET won(p) == p.success
        lost(p) == ~p.success
        total_wins == SumRoi(preds, Len(preds), TRUE)
        total_losses == Abs(SumRoi(preds, Len(preds), FALSE))
    IN  [total_roi |-> total_wins - total_losses,
         avg_win |-> IF Count(preds, won) = 0 THEN Frac(0, 1)
                     ELSE Frac(total_wins, Count(preds, won)),
         avg_loss |-> IF Count(preds, lost) = 0 THEN Frac(0, 1)
                      ELSE Frac(SumRoi(preds, Len(preds), FALSE), Count(preds, lost)),
         profit_factor |-> IF total_losses > 0 THEN Frac(total_wins, total_losses)
                           ELSE Frac(0, 1)]

\* volatility > 0.5, volatility = sqrt(variance * 252)
HighVolatility(p) ==
    p.predicted.market_conditions.volatility_sq.num * 252 * 4
        > p.predicted.market_conditions.volatility_sq.den
TrendMisaligned(p) ==
    \/ p.predicted.direction = "long" /\ p.actual.trend = "downtrend"
    \/ p.predicted.direction = "short" /\ p.actual.trend = "uptrend"
\* abs(close - entry) < abs(tp - entry) * 0.1
FalseBreakout(p) ==
    LET lv == p.predicted.price_levels IN
    10 * lv.tp.den * Abs(p.actual.close - lv.entry.num)
        < Abs(lv.tp.num - lv.entry.num * lv.tp.den)
StopLossHit(p) ==
    \/ /\ p.predicted.direction = "long"
       /\ FracLe(Frac(p.actual.low, 1), p.predicted.price_levels.sl)
    \/ /\ p.predicted.direction = "short"
       /\ FracLe(p.predicted.price_levels.sl, Frac(p.actual.high, 1))

\* _analyze_errors
AnalyzeErrors(preds) ==
    LET failed == SelectSeq(preds, LAMBDA p : ~p.success) IN
    [high_volatility_fails |-> PctOf(Count(failed, HighVolatility), Len(failed)),
     trend_misalignment |-> PctOf(Count(failed, TrendMisaligned), Len(failed)),
     false_breakouts |-> PctOf(Count(failed, FalseBreakout), Len(failed)),
     stop_loss_hits |-> PctOf(Count(failed, StopLossHit), Len(failed))]

\* the results dictionary as initialised, returned when anything raises
DefaultResults ==
    [predictions |-> <<>>,
     accuracy_metrics |->
        [overall_accuracy |-> Frac(0, 1), long_accuracy |-> Frac(0, 1),
         short_accuracy |-> Frac(0, 1), high_confidence_accuracy |-> Frac(0, 1),
         low_confidence_accuracy |-> Frac(0, 1)],
     roi_metrics |->
        [total_roi |-> 0, avg_win |-> Frac(0, 1), avg_loss |-> Frac(0, 1),
         profit_factor |-> Frac(0, 1)],
     detailed_analysis |-> <<>>,
     error_analysis |->
        [high_volatility_fails |-> Frac(0, 1), trend_misalignment |-> Frac(0, 1),
         false_breakouts |-> Frac(0, 1), stop_loss_hits |-> Frac(0, 1)]]

\* _generate_detailed_analysis
GenerateDetailedAnalysis(preds) ==
    [k \in 1..Len(preds) |->
        [timestamp |-> preds[k].timestamp,
         prediction |-> preds[k].predicted,
         outcome |-> preds[k].actual,
         success |-> preds[k].success,
         confidence |-> preds[k].predicted.confidence,
         market_conditions |-> preds[k].predicted.market_conditions]]

\* the ValueError of a short date range reaching the caller
AnalyzeHistoricalDataRaising(period, analysis) ==
    IF Len(period) < MIN_DATA_POINTS THEN [raised |-> "ValueError"]
    ELSE LET preds == Predictions(CleanMarketData(period), analysis) IN
         IF preds = <<>> THEN DefaultResults
         ELSE [predictions |-> preds,
               accuracy_metrics |-> CalculateAccuracyMetrics(preds),
               roi_metrics |-> CalculateRoiMetrics(preds),
               detailed_analysis |-> GenerateDetailedAnalysis(preds),
               error_analysis |-> AnalyzeErrors(preds)]

\* analyze_historical_data for the rows period of the date range: every
\* ValueError raised in the try block is caught and the results dictionary
\* is returned as it was initialised
AnalyzeHistoricalData(period, analysis) ==
    IF Len(period) < MIN_DATA_POINTS THEN DefaultResults
    ELSE LET preds == Predictions(CleanMarketData(period), analysis) IN
         IF preds = <<>> THEN DefaultResults
         ELSE [predictions |-> preds,
               accuracy_metrics |-> CalculateAccuracyMetrics(preds),
               roi_metrics |-> CalculateRoiMetrics(preds),
               detailed_analysis |-> GenerateDetailedAnalysis(preds),
               error_analysis |-> AnalyzeErrors(preds)]

\* market_data.loc[start_ts:end_ts], start_ts being the label of row 1 or 2
BtStarts == {1, 2}

BtInit ==
    /\ bt_market_data = <<>>
    /\ bt_analysis = None
    /\ bt_period = <<>>
    /\ bt_results = None

analyze_historical_data ==
    \E md \in BtWindows, an \in BtAnalyses, start \in BtStarts :
        /\ bt_results = None
        /\ bt_market_data' = md
        /\ bt_analysis' = an
        /\ bt_period' = SubSeq(md, start, Len(md))
        /\ bt_results' = AnalyzeHistoricalData(SubSeq(md, start, Len(md)), an)

(***************************************************************************)
(* Candlestick patterns: CandlestickPatterns.scan_all_patterns             *)
(***************************************************************************)
DojiToleranceInv == 10      \* tolerance = doji_tolerance = 0.1
HammerBodyTenths == 3       \* body_ratio = 0.3
HammerShadowRatio == 2      \* shadow_ratio = 2.0
HammerUpperInv == 10        \* upper_shadow <= body * 0.1

\* a row of an OHLCV frame
Bar(o, h, l, c, v) ==
    [open |-> o, high |-> h, low |-> l, close |-> c, volume |-> v]

BodyLength(b) == Abs(b.close - b.open)
UpperShadow(b) == b.high - Max2(b.open, b.close)
LowerShadow(b) == Min2(b.open, b.close) - b.low
IsBullish(b) == b.close > b.open
IsBearish(b) == b.close < b.open

\* total_shadow > 0 and body <= total_shadow * tolerance
SmallBody(b) ==
    /\ UpperShadow(b) + LowerShadow(b) > 0
    /\ DojiToleranceInv * BodyLength(b) <= UpperShadow(b) + LowerShadow(b)

\* signals.iloc[i] of each identify_* method; rows are numbered from 1 here
IdentifyDoji(data, i) == IF SmallBody(data[i]) THEN 1 ELSE 0

IdentifyHammer(data, i) ==
    LET body  == BodyLength(data[i])
        upper == UpperShadow(data[i])
        lower == LowerShadow(data[i])
        total_length == upper + body + lower
    IN  IF /\ total_length > 0
           /\ 10 * body <= HammerBodyTenths * total_length
           /\ lower >= body * HammerShadowRatio
           /\ HammerUpperInv * upper <= body
        THEN 1 ELSE 0

\* the bearish branch asks for an open above, and a close below, the
\* previous body
IdentifyEngulfingStrict(data, i) ==
    IF i < 2 THEN 0
    ELSE LET prev == data[i-1]
             curr == data[i]
         IN  IF /\ IsBearish(prev) /\ IsBullish(curr)
                /\ curr.open <= prev.close /\ curr.close >= prev.open
                /\ BodyLength(curr) > BodyLength(prev)
             THEN 1
             ELSE IF /\ IsBullish(prev) /\ IsBearish(curr)
                     /\ curr.open > prev.close /\ curr.close < prev.open
                     /\ BodyLength(curr) > BodyLength(prev)
                  THEN 0 - 1
                  ELSE 0

IdentifyEngulfing(data, i) ==
    IF i < 2 THEN 0
    ELSE LET prev == data[i-1]
             curr == data[i]
         IN  IF /\ IsBearish(prev) /\ IsBullish(curr)
                /\ curr.open <= prev.close /\ curr.close >= prev.open
                /\ BodyLength(curr) > BodyLength(prev)
             THEN 1
             ELSE IF /\ IsBullish(prev) /\ IsBearish(curr)
                     /\ curr.open >= prev.close /\ curr.close <= prev.open
                     /\ BodyLength(curr) > BodyLength(prev)
                  THEN 0 - 1
                  ELSE 0

\* close > (open[i-2] + close[i-2]) / 2 is compared doubled
IdentifyMorningEveningStar(data, i) ==
    IF i < 3 THEN 0
    ELSE LET first == data[i-2]
             curr  == data[i]
         IN  IF /\ IsBearish(first) /\ SmallBody(data[i-1]) /\ IsBullish(curr)
                /\ 2 * curr.close > first.open + first.close
             THEN 1
             ELSE IF /\ IsBullish(first) /\ SmallBody(data[i-1]) /\ IsBearish(curr)
                     /\ 2 * curr.close < first.open + first.close
                  THEN 0 - 1
                  ELSE 0

IdentifyThreeLineStrike(data, i) ==
    IF i < 4 THEN 0
    ELSE LET a == data[i-3]
             b == data[i-2]
             c == data[i-1]
             d == data[i]
         IN  IF /\ IsBearish(a) /\ IsBearish(b) /\ IsBearish(c)
                /\ b.close < a.close /\ c.close < b.close
                /\ IsBullish(d) /\ d.close > a.open
             THEN 1
             ELSE IF /\ IsBullish(a) /\ IsBullish(b) /\ IsBullish(c)
                     /\ b.close > a.close /\ c.close > b.close
                     /\ IsBearish(d) /\ d.close < a.open
                  THEN 0 - 1
                  ELSE 0

\* the dictionary's keys, in its order
PatternNames == <<"doji", "hammer", "engulfing", "star", "three_line_strike">>

\* scan_all_patterns(data), each series taken at its last row as
\* _analyze_timeframe does (v.iloc[-1]); data is not empty
ScanAllPatterns(data) ==
    [doji |-> IdentifyDoji(data, Len(data)),
     hammer |-> IdentifyHammer(data, Len(data)),
     engulfing |-> IdentifyEngulfing(data, Len(data)),
     star |-> IdentifyMorningEveningStar(data, Len(data)),
     three_line_strike |-> IdentifyThreeLineStrike(data, Len(data))]

\* identify_engulfing(data): the whole series of signals
EngulfingSignals(data) ==
    SubSeq([i \in 1..Len(data) |-> IdentifyEngulfing(data, i)], 1, Len(data))

MaxPatLen == 2          \* longest candle series drawn
MaxPatPrice == 4        \* opens and closes are 1..MaxPatPrice

\* candles whose high and low are the ends of the body
PatCandles ==
    {Bar(o, Max2(o, c), Min2(o, c), c, 1) : o \in 1..MaxPatPrice, c \in 1..MaxPatPrice}
PatInputs == SeqsUpTo(PatCandles, MaxPatLen)

\* the same candles with open and close exchanged
SwapOpenClose(data) ==
    SubSeq([i \in 1..Len(data) |->
               [data[i] EXCEPT !.open = data[i].close, !.close = data[i].open]],
           1, Len(data))

PatInit ==
    /\ pat_data = <<>>
    /\ pat_result = None

\* identify_engulfing called for a series and for its mirror image
identify_engulfing ==
    /\ pat_result = None
    /\ \E data \in PatInputs :
        /\ pat_data' = data
        /\ pat_result' = [signals |-> EngulfingSignals(data),
                          mirror |-> EngulfingSignals(SwapOpenClose(data))]

(***************************************************************************)
(* RiskAnalyzer.calculate_risk_metrics                                     *)
(*                                                                         *)
(* The sub-scores are numbers in [0, 1] that the code forms with a sigmoid *)
(* and with rolling statistics; they are kept here in units of 1/RiskScale,*)
(* every quotient rounded down, and overall_risk_score (0 to 100) in the   *)
(* same unit. A sub-score that is NaN in the code is NaN here.             *)
(***************************************************************************)
RiskScale == 10000
VolatilityWeightPct == 30       \* self.volatility_weight = 0.3
LiquidityWeightPct == 25        \* self.liquidity_weight = 0.25
MarketCapWeightPct == 20        \* self.market_cap_weight = 0.2
VolumeStabilityWeightPct == 15  \* self.volume_stability_weight = 0.15
DepthNorm == 1000000            \* total_liquidity / 1000000

Clamp(x, lo, hi) == Min2(Max2(x, lo), hi)

\* the spread risk taken as 1 - min(spread_percentage / 100, 1)
LiquidityRiskNarrow(book) ==
    IF book = None THEN RiskScale
    ELSE LET sp == book.spread_percentage
             total_liquidity == book.bid_volume + book.ask_volume
             spread_risk ==
                 IF sp.num >= 100 * sp.den THEN 0
                 ELSE RiskScale - (sp.num * RiskScale) \div (100 * sp.den)
             depth_risk ==
                 RiskScale - ((RiskScale * total_liquidity + DepthNorm + total_liquidity - 1)
                                  \div (DepthNorm + total_liquidity))
             imbalance ==
                 IF total_liquidity > 0
                 THEN (RiskScale * Abs(total_liquidity - 2 * book.bid_volume))
                          \div (2 * total_liquidity)
                 ELSE 0
         IN  Clamp((4 * spread_risk + 4 * depth_risk + 2 * imbalance) \div 10,
                   0, RiskScale)

\* _calculate_liquidity_risk
LiquidityRisk(book) ==
    IF book = None THEN RiskScale
    ELSE LET sp == book.spread_percentage
             total_liquidity == book.bid_volume + book.ask_volume
             \* min(spread_percentage / 100, 1)
             spread_risk ==
                 IF sp.num >= 100 * sp.den THEN RiskScale
                 ELSE (sp.num * RiskScale) \div (100 * sp.den)
             \* 1 / (1 + total_liquidity / 1000000)
             depth_risk ==
                 RiskScale - ((RiskScale * total_liquidity + DepthNorm + total_liquidity - 1)
                                  \div (DepthNorm + total_liquidity))
             \* abs(0.5 - bid_volume / total_liquidity), 0 for an empty book
             imbalance ==
                 IF total_liquidity > 0
                 THEN (RiskScale * Abs(total_liquidity - 2 * book.bid_volume))
                          \div (2 * total_liquidity)
                 ELSE 0
         IN  Clamp((4 * spread_risk + 4 * depth_risk + 2 * imbalance) \div 10,
                   0, RiskScale)

\* _analyze_market_depth; depth_strength = 1 / (1 + exp(-total_depth / 1e6))
\* is taken as 1/2 + total_depth / 4e6, its value up to the rounding for the
\* books drawn here (total_depth far below 1e6)
AnalyzeMarketDepth(book) ==
    IF book = None THEN [strength |-> 0, balance |-> Frac(0, 1)]
    ELSE LET total_depth == book.bid_volume + book.ask_volume IN
         [strength |-> RiskScale \div 2 + (RiskScale * total_depth) \div (4 * DepthNorm),
          balance |-> IF total_depth > 0
                      THEN Frac(2 * Min2(book.bid_volume, book.ask_volume), total_depth)
                      ELSE Frac(0, 1),
          wall_strength |->
              IF total_depth > 0
              THEN Frac(SumSeq(Quantities(book.bid_walls))
                            + SumSeq(Quantities(book.ask_walls)), total_depth)
              ELSE Frac(0, 1)]

\* _classify_risk_level: every comparison with NaN is false
ClassifyRiskLevel(score) ==
    IF score = NaN THEN "Very High"
    ELSE IF score.value < 20 * RiskScale THEN "Very Low"
    ELSE IF score.value < 40 * RiskScale THEN "Low"
    ELSE IF score.value < 60 * RiskScale THEN "Moderate"
    ELSE IF score.value < 80 * RiskScale THEN "High"
    ELSE "Very High"

\* risk_score = (volatility_risk * 0.3 + liquidity_risk * 0.25
\*               + (1 - volume_stability) * 0.15 + (1 - strength) * 0.2) * 100,
\* then min(max(risk_score, 0), 100), which leaves NaN as it is
OverallRiskScore(volatility_risk, liquidity_risk, volume_stability, strength) ==
    IF volume_stability = NaN THEN NaN
    ELSE Num(Clamp(VolatilityWeightPct * volatility_risk
                       + LiquidityWeightPct * liquidity_risk
                       + VolumeStabilityWeightPct * (RiskScale - volume_stability.value)
                       + MarketCapWeightPct * (RiskScale - strength),
                   0, 100 * RiskScale))

\* calculate_risk_metrics(market_data, order_book, volume_profile).
\* _calculate_volatility_risk and _calculate_volume_stability are rolling
\* statistics of the whole frame and come with it (df.history);
\* price_stability and support_resistance_strength enter no score and no
\* later step, and are left out.
CalculateRiskMetrics(df, book) ==
    LET volatility_risk == df.history.volatility_risk
        liquidity_risk == LiquidityRisk(book)
        volume_stability == df.history.volume_stability
        market_depth == AnalyzeMarketDepth(book)
        score == OverallRiskScore(volatility_risk, liquidity_risk,
                                  volume_stability, market_depth.strength)
    IN  [volatility_risk |-> volatility_risk,
         liquidity_risk |-> liquidity_risk,
         volume_stability |-> volume_stability,
         market_depth |-> market_depth,
         overall_risk_score |-> score,
         risk_level |-> ClassifyRiskLevel(score)]

MaxRiskCalls == 2       \* calls of _calculate_liquidity_risk followed

\* spread_percentage of the analyses drawn: a crossed book's negative
\* spread, none, 0.5%, 50%, 100%, 150%
RiskSpreads == {Frac(n, 2) : n \in {0 - 2, 0, 1, 100, 200, 300}}
RiskVolumes == {0, 1, 50000}
\* the keys of an order-book analysis that _calculate_liquidity_risk reads;
\* None for an analysis that failed
RiskBooks ==
    {None} \cup
    {[spread_percentage |-> sp, bid_volume |-> b, ask_volume |-> a] :
        sp \in RiskSpreads, b \in RiskVolumes, a \in RiskVolumes}

RiskInit == risk_calls = <<>>

calculate_liquidity_risk ==
    /\ Len(risk_calls) < MaxRiskCalls
    /\ \E book \in RiskBooks :
           risk_calls' = Append(risk_calls,
                                [order_book |-> book,
                                 liquidity_risk |-> LiquidityRisk(book)])

(***************************************************************************)
(* MarketAnalyzer.get_market_sentiment                                     *)
(***************************************************************************)
FracNorm(a) ==
    LET g == Gcd(Abs(a.num), a.den) IN Frac(a.num \div g, a.den \div g)
FracAdd(a, b) == FracNorm(Frac(a.num * b.den + b.num * a.den, a.den * b.den))
FracMul(a, b) == FracNorm(Frac(a.num * b.num, a.den * b.den))
FracAbs(a) == Frac(Abs(a.num), a.den)
\* np.sign
FracSign(a) == IF a.num > 0 THEN 1 ELSE IF a.num < 0 THEN 0 - 1 ELSE 0

SentimentTimeframes == <<"1h", "4h", "1d">>
\* weights = {'1h': 0.2, '4h': 0.3, '1d': 0.5}, weights.get(tf, 0.2)
SentimentWeight(tf) ==
    IF tf = "1d" THEN Frac(5, 10) ELSE IF tf = "4h" THEN Frac(3, 10) ELSE Frac(2, 10)

\* A frame of the aggregator. bars are its last rows; what the code computes
\* over the whole frame with windows longer than these rows comes with the
\* frame as history: the first open, the last value of each EMA, the
\* support and resistance levels, the last 20-row mean of the volume, and
\* the two rolling risk sub-scores of RiskAnalyzer.
AggFrame(bars, kind, history) == [bars |-> bars, kind |-> kind, history |-> history]

\* sentiment_scores[tf]
SentimentMetrics(df) ==
    LET last == df.bars[Len(df.bars)] IN
    [price_change |->
         Frac(100 * (last.close - df.history.first_open), df.history.first_open),
     volume_trend |->
         IF df.history.volume_sma > 0
         THEN Frac(last.volume - df.history.volume_sma, df.history.volume_sma)
         ELSE Frac(0, 1)]

\* the loop adding score * weight, over the timeframes of tfs that data holds
RECURSIVE WeightedSentiment(_, _)
WeightedSentiment(tfs, scores) ==
    IF tfs = <<>> THEN Frac(0, 1)
    ELSE IF Head(tfs) \notin DOMAIN scores THEN WeightedSentiment(Tail(tfs), scores)
    ELSE LET m == scores[Head(tfs)]
             score == FracMul(Frac(FracSign(m.price_change), 1),
                              FracAdd(Frac(1, 1), FracAbs(m.volume_trend)))
         IN  FracAdd(FracMul(score, SentimentWeight(Head(tfs))),
                     WeightedSentiment(Tail(tfs), scores))

SentimentLabel(x) ==
    IF FracLt(Frac(1, 2), x) THEN "Very Bullish"
    ELSE IF FracLt(Frac(1, 10), x) THEN "Bullish"
    ELSE IF FracLe(FracAbs(x), Frac(1, 10)) THEN "Neutral"
    ELSE IF FracLt(Frac(0 - 1, 2), x) THEN "Bearish"
    ELSE "Very Bearish"

\* the sentiment of the timeframes alone when there is no order book
GetMarketSentimentBookless(data, book) ==
    IF DOMAIN data = {} THEN None
    ELSE LET scores == [tf \in DOMAIN data |-> SentimentMetrics(data[tf])]
             overall == FracMul(WeightedSentiment(SentimentTimeframes, scores),
                                Frac(7, 10))
         IN  [overall_score |-> overall,
              sentiment |-> SentimentLabel(overall),
              timeframe_metrics |-> scores,
              order_book_pressure |-> None]

\* get_market_sentiment, given what get_multi_timeframe_data and
\* analyze_order_book_depth returned to it
GetMarketSentiment(data, book) ==
    IF DOMAIN data = {} THEN None
    ELSE IF book = None THEN None
    ELSE LET scores == [tf \in DOMAIN data |-> SentimentMetrics(data[tf])]
             book_sentiment ==
                 FracMul(FracAdd(book.buy_pressure,
                                 FracMul(Frac(0 - 1, 1), book.sell_pressure)),
                         Frac(1, 100))
             overall ==
                 FracAdd(FracMul(WeightedSentiment(SentimentTimeframes, scores),
                                 Frac(7, 10)),
                         FracMul(book_sentiment, Frac(3, 10)))
         IN  [overall_score |-> overall,
              sentiment |-> SentimentLabel(overall),
              timeframe_metrics |-> scores,
              order_book_pressure |-> [buy_pressure |-> book.buy_pressure,
                                       sell_pressure |-> book.sell_pressure]]

(***************************************************************************)
(* TradingAnalyzer: the multi-timeframe aggregator                         *)
(***************************************************************************)
MaxAnalyses == 2            \* calls of perform_complete_analysis followed
DefaultTimeframes == <<"15m", "1h", "4h", "1d">>
DefaultNumBins == 50        \* analyze_volume_profile(symbol): num_bins = 50
EmaPoints == 30
RsiPoints == 25
PatternPoints == 15
MinSignalPoints == 30       \* bullish_points >= 30
DirectionTenths == 6        \* bull_ratio > 0.6
StopPerMille == 995         \* max(support_levels) * 0.995
TargetPerMille == 1005      \* min(resistance_levels) * 1.005

\* None where the other values of the field are strings
NoneStr == "None"

\* _analyze_timeframe(data) for a non-empty frame of finite prices. The
\* volume_analysis entry (three floats of calculate_volume_profile that no
\* later step reads) is left out.
AnalyzeTimeframe(df) ==
    LET last == Len(df.bars)
        rsi_analysis ==
            AdvancedRsi([i \in 1..last |-> df.bars[i].close], RsiDefaultPeriod)
    IN  [technical_indicators |->
             [emas |-> df.history.emas,
              rsi |-> [value |-> rsi_analysis.RSI[last],
                       signal |-> rsi_analysis.signals[last],
                       bearish_divergence |-> rsi_analysis.bearish_divergence[last] # 0,
                       bullish_divergence |-> rsi_analysis.bullish_divergence[last] # 0]],
         support_resistance |-> df.history.levels,
         patterns |-> ScanAllPatterns(df.bars)]

Reason(side, what) == [side |-> side, what |-> what]

\* the votes of _analyze_timeframe_signals: 1 bullish, -1 bearish, 0 none
EmaVote(emas) ==
    IF emas.EMA_9 # 0 /\ emas.EMA_20 # 0 /\ emas.EMA_50 # 0
    THEN IF emas.EMA_9 > emas.EMA_20 /\ emas.EMA_20 > emas.EMA_50 THEN 1
         ELSE IF emas.EMA_9 < emas.EMA_20 /\ emas.EMA_20 < emas.EMA_50 THEN 0 - 1
         ELSE 0
    ELSE 0
RsiVote(rsi) ==
    IF FracLt(rsi.value, Frac(RsiOversold, 1)) /\ rsi.bullish_divergence THEN 1
    ELSE IF FracLt(Frac(RsiOverbought, 1), rsi.value) /\ rsi.bearish_divergence
         THEN 0 - 1
         ELSE 0

\* the points one side collects: side is 1 for bullish, -1 for bearish
SidePoints(tf_analysis, side) ==
    (IF EmaVote(tf_analysis.technical_indicators.emas) = side THEN EmaPoints ELSE 0)
    + (IF RsiVote(tf_analysis.technical_indicators.rsi) = side THEN RsiPoints ELSE 0)
    + PatternPoints
        * Cardinality({k \in DOMAIN PatternNames :
                          tf_analysis.patterns[PatternNames[k]] = side})

\* signals['reasons'], in the order the code appends them
SignalReasons(tf_analysis) ==
    LET ema == EmaVote(tf_analysis.technical_indicators.emas)
        rsi == RsiVote(tf_analysis.technical_indicators.rsi)
        Side(v) == IF v = 1 THEN "Bullish" ELSE "Bearish"
        voted == SelectSeq(PatternNames, LAMBDA p : tf_analysis.patterns[p] # 0)
    IN  (IF ema # 0 THEN <<Reason(Side(ema), "EMA alignment")>> ELSE <<>>)
        \o (IF rsi # 0 THEN <<Reason(Side(rsi), "RSI with divergence")>> ELSE <<>>)
        \o [k \in 1..Len(voted) |->
               Reason(Side(tf_analysis.patterns[voted[k]]), voted[k])]

\* the final comparison with >= in place of >: a tie is decided for buy
AnalyzeTimeframeSignalsTieBuys(tf_analysis) ==
    LET bullish_points == SidePoints(tf_analysis, 1)
        bearish_points == SidePoints(tf_analysis, 0 - 1)
        buy == bullish_points >= bearish_points /\ bullish_points >= MinSignalPoints
        sell == ~buy /\ bearish_points > bullish_points
                     /\ bearish_points >= MinSignalPoints
    IN  [signal |-> IF buy THEN "buy" ELSE IF sell THEN "sell" ELSE NoneStr,
         strength |-> IF buy THEN bullish_points
                      ELSE IF sell THEN bearish_points ELSE 0,
         reasons |-> SignalReasons(tf_analysis)]

\* _analyze_timeframe_signals(tf_analysis), tf_analysis a snapshot of
\* _analyze_timeframe
AnalyzeTimeframeSignals(tf_analysis) ==
    LET bullish_points == SidePoints(tf_analysis, 1)
        bearish_points == SidePoints(tf_analysis, 0 - 1)
    IN  [signal |-> IF bullish_points > bearish_points
                       /\ bullish_points >= MinSignalPoints THEN "buy"
                    ELSE IF bearish_points > bullish_points
                            /\ bearish_points >= MinSignalPoints THEN "sell"
                    ELSE NoneStr,
         strength |-> IF bullish_points > bearish_points
                         /\ bullish_points >= MinSignalPoints THEN bullish_points
                      ELSE IF bearish_points > bullish_points
                              /\ bearish_points >= MinSignalPoints THEN bearish_points
                      ELSE 0,
         reasons |-> SignalReasons(tf_analysis)]

\* every timeframe weighs the same
TimeframeWeightEven(tf) == 1

\* weight = 1.0 if tf == '1d' else 0.5 if tf == '4h' else 0.25, in quarters
TimeframeWeight(tf) == IF tf = "1d" THEN 4 ELSE IF tf = "4h" THEN 2 ELSE 1

\* the weights of the timeframes whose signal is s, added up
SignalWeight(tf_signals, s) ==
    SumOver([tf \in DOMAIN tf_signals |->
                IF tf_signals[tf].signal = s THEN TimeframeWeight(tf) ELSE 0],
            DOMAIN tf_signals)
\* total_signals counting the timeframes that voted only
TotalWeightOfVoters(tf_signals) ==
    SumOver([tf \in DOMAIN tf_signals |->
                IF tf_signals[tf].signal # NoneStr THEN TimeframeWeight(tf) ELSE 0],
            DOMAIN tf_signals)
\* total_signals: the weights of all timeframes with signals, added up
TotalWeight(tf_signals) ==
    SumOver([tf \in DOMAIN tf_signals |-> TimeframeWeight(tf)], DOMAIN tf_signals)

\* the signals dictionary _generate_trade_signals starts from
DefaultSignals ==
    [overall_sentiment |-> NoneStr,
     confidence_score |-> Frac(0, 1),
     recommended_direction |-> NoneStr,
     entry_zone |-> None,
     stop_loss |-> None,
     take_profit |-> None,
     timeframe_signals |-> EmptyDict,
     risk_adjusted_size |-> None]

\* confidence_score *= 1 - risk_score / 100, the whole score taken off
RiskAdjustedConfidenceFull(confidence, risk_score) ==
    IF risk_score = NaN THEN NaN
    ELSE FracNorm(Frac(confidence.num * (100 * RiskScale - risk_score.value),
                       confidence.den * 100 * RiskScale))

\* confidence_score *= 1 - risk_score / 200
RiskAdjustedConfidence(confidence, risk_score) ==
    IF risk_score = NaN THEN NaN
    ELSE FracNorm(Frac(confidence.num * (200 * RiskScale - risk_score.value),
                       confidence.den * 200 * RiskScale))

\* risk_adjusted_size = 1.0 * (1 - risk_score / 100)
RiskAdjustedSize(risk_score) ==
    IF risk_score = NaN THEN NaN
    ELSE FracNorm(Frac(100 * RiskScale - risk_score.value, 100 * RiskScale))

\* the support levels of every snapshot, whatever the price
LevelsAtAnyPrice(timeframes, price) ==
    UNION {SeqRange(timeframes[tf].support_resistance.support) : tf \in DOMAIN timeframes}

\* the levels of every snapshot that lie on the given side of the price
LevelsBelow(timeframes, price) ==
    UNION {{l \in SeqRange(timeframes[tf].support_resistance.support) :
               FracLt(Frac(l, 1), price)} : tf \in DOMAIN timeframes}
LevelsAbove(timeframes, price) ==
    UNION {{l \in SeqRange(timeframes[tf].support_resistance.resistance) :
               FracLt(price, Frac(l, 1))} : tf \in DOMAIN timeframes}
SetMax(S) == CHOOSE x \in S : \A y \in S : y <= x
SetMin(S) == CHOOSE x \in S : \A y \in S : x <= y

\* _generate_trade_signals(analysis)
GenerateTradeSignals(analysis) ==
    IF analysis.market_sentiment = None THEN DefaultSignals
    ELSE
    LET tf_signals == [tf \in DOMAIN analysis.timeframes |->
                          AnalyzeTimeframeSignals(analysis.timeframes[tf])]
        bullish_signals == SignalWeight(tf_signals, "buy")
        bearish_signals == SignalWeight(tf_signals, "sell")
        total_signals == TotalWeight(tf_signals)
        direction ==
            IF 10 * bullish_signals > DirectionTenths * total_signals THEN "long"
            ELSE IF 10 * bearish_signals > DirectionTenths * total_signals THEN "short"
            ELSE NoneStr
        confidence ==
            IF direction = "long" THEN FracNorm(Frac(100 * bullish_signals, total_signals))
            ELSE IF direction = "short"
                 THEN FracNorm(Frac(100 * bearish_signals, total_signals))
                 ELSE Frac(0, 1)
        risk == analysis.risk_metrics
        book == analysis.order_book_analysis
        supports == LevelsBelow(analysis.timeframes, book.mid_price)
        resistances == LevelsAbove(analysis.timeframes, book.mid_price)
        zones == /\ direction # NoneStr
                 /\ book # None
                 /\ supports # {}
                 /\ resistances # {}
        below == Frac(StopPerMille * SetMax(supports), 1000)
        above == Frac(TargetPerMille * SetMin(resistances), 1000)
    IN  [overall_sentiment |-> analysis.market_sentiment.sentiment,
         confidence_score |->
             IF risk = None THEN confidence
             ELSE RiskAdjustedConfidence(confidence, risk.overall_risk_score),
         recommended_direction |-> direction,
         entry_zone |-> IF zones THEN book.mid_price ELSE None,
         stop_loss |-> IF ~zones THEN None
                       ELSE IF direction = "long" THEN below ELSE above,
         take_profit |-> IF ~zones THEN None
                         ELSE IF direction = "long" THEN above ELSE below,
         timeframe_signals |-> tf_signals,
         risk_adjusted_size |->
             IF risk = None THEN None
             ELSE RiskAdjustedSize(risk.overall_risk_score)]

\* the daily frame only, when the client had rows for it
MarketDataDailyOnly(candles) ==
    [tf \in {k \in {"1d"} : candles[k] # None /\ candles[k].bars # <<>>} |-> candles[tf]]

\* the frames of the timeframes the client had rows for
MarketData(candles) ==
    [tf \in {k \in SeqRange(DefaultTimeframes) :
                candles[k] # None /\ candles[k].bars # <<>>} |-> candles[tf]]

\* The analyses perform_complete_analysis(symbol) may return for the answers
\* mkt of the collaborator, the cache files and the clock reading t, each
\* with the cache files it leaves and the data, and the timeframes asked of
\* the client, of its last get_multi_timeframe_data call. They differ in the
\* order argsort gives to price bins of equal volume only.
PerformCompleteAnalysis(mkt, files, t) ==
    LET market_data == MarketData(mkt.candles) IN
    IF DOMAIN market_data = {}
    THEN {[result |-> None, cache |-> files, data |-> EmptyDict, calls |-> {}]}
    ELSE
    LET timeframes == [tf \in DOMAIN market_data |-> AnalyzeTimeframe(market_data[tf])]
        resp == [tf \in CacheKeys |-> mkt.candles[tf]]
        \* get_market_sentiment
        s1 == GetMultiTimeframeData(files, SentimentTimeframes, resp, t)
        book == AnalyzeOrderBookDepth(mkt.depth)
        sentiment == GetMarketSentiment(s1.data, book)
        \* analyze_volume_profile
        s2 == GetMultiTimeframeData(s1.cache, SentimentTimeframes, resp, t)
        risk == IF "1d" \in DOMAIN market_data
                THEN CalculateRiskMetrics(market_data["1d"], book)
                ELSE None
        partial == [timestamp |-> t,
                    timeframes |-> timeframes,
                    market_sentiment |-> sentiment,
                    order_book_analysis |-> book,
                    risk_metrics |-> risk]
        signals == GenerateTradeSignals(partial)
    IN  {[result |-> [timestamp |-> t,
                      timeframes |-> timeframes,
                      market_sentiment |-> sentiment,
                      order_book_analysis |-> book,
                      volume_profile |-> vp,
                      risk_metrics |-> risk,
                      trade_signals |-> signals],
          cache |-> s2.cache, data |-> s2.data, calls |-> s2.calls] :
            vp \in AnalyzeVolumeProfile(SentimentTimeframes, s2.data, DefaultNumBins)}

\* The frames the collaborator answers with
RallyBars == <<Bar(96, 97, 96, 97, 1), Bar(97, 98, 97, 98, 2),
               Bar(98, 99, 98, 99, 3), Bar(99, 100, 99, 100, 4)>>
\* closes rise from row to row while every candle closes below its open;
\* two price bins tie for the largest volume
GapBars == <<Bar(98, 98, 97, 97, 0), Bar(99, 99, 98, 98, 1),
             Bar(100, 100, 99, 99, 2), Bar(101, 101, 100, 100, 2)>>
\* rising closes without any volume
ThinBars == <<Bar(96, 97, 96, 97, 0), Bar(97, 98, 97, 98, 0),
              Bar(98, 99, 98, 99, 0), Bar(99, 100, 99, 100, 0)>>
\* falling closes that end with a bearish engulfing candle
SlideBars == <<Bar(103, 103, 102, 102, 1), Bar(102, 102, 101, 101, 2),
               Bar(101, 102, 101, 102, 3), Bar(103, 103, 100, 100, 5)>>

Emas(e9, e20, e50, e200) ==
    [EMA_9 |-> e9, EMA_20 |-> e20, EMA_50 |-> e50, EMA_200 |-> e200]
Levels(s, r) == [support |-> s, resistance |-> r]

\* a calm rally on steady volume
Rally ==
    AggFrame(RallyBars, "plain",
             [first_open |-> 90, emas |-> Emas(99, 98, 97, 95),
              levels |-> Levels(<<95, 99>>, <<101, 105>>), volume_sma |-> 2,
              volatility_risk |-> 0, volume_stability |-> Num(RiskScale)])
\* a rally at the largest volatility risk and the lowest volume stability
\* min(max(stability, 0), 1) can return
RallyWild ==
    AggFrame(GapBars, "timestamped",
             [first_open |-> 90, emas |-> Emas(100, 99, 98, 97),
              levels |-> Levels(<<>>, <<102>>), volume_sma |-> 1,
              volatility_risk |-> RiskScale,
              volume_stability |-> Num(0)])
\* a rally without volume: every rolling std / mean of the volume is 0 / 0
RallyThin ==
    AggFrame(ThinBars, "plain",
             [first_open |-> 90, emas |-> Emas(99, 98, 97, 95),
              levels |-> Levels(<<98>>, <<103>>), volume_sma |-> 0,
              volatility_risk |-> RiskScale \div 2, volume_stability |-> NaN])
Slide ==
    AggFrame(SlideBars, "plain",
             [first_open |-> 101, emas |-> Emas(101, 102, 103, 104),
              levels |-> Levels(<<97>>, <<104>>), volume_sma |-> 2,
              volatility_risk |-> RiskScale \div 2,
              volume_stability |-> Num(RiskScale \div 2)])

\* What client.get_market_data may answer for a timeframe. Only the daily
\* frame reaches the risk analyzer, so the frame without volume is drawn for
\* it alone; the frame with the Timestamp index and the tied price bins,
\* and the falling frame, are drawn for the two timeframes of the largest
\* weight.
AggResponses(tf) ==
    IF tf = "1d" THEN {None, Rally, RallyWild, RallyThin, Slide}
    ELSE IF tf = "4h" THEN {None, Rally, RallyWild, Slide}
    ELSE {None, Rally}
\* a book with a spread of 100% of the mid-price and nothing on the bid
\* side: the largest liquidity risk an analysed book can have
WideBook == [bids |-> <<Level(1, 0)>>, asks |-> <<Level(3, 1)>>]
\* what client._make_request('depth', ...) may answer: nothing, a book with
\* more bids than asks, a book of empty levels, the wide book
AggDepths ==
    {None,
     [bids |-> <<Level(100, 50)>>, asks |-> <<Level(101, 1)>>],
     [bids |-> <<Level(99, 0)>>, asks |-> <<Level(101, 0)>>],
     WideBook}
\* the collaborator's frozen answers
AggMarkets ==
    {[candles |-> c, depth |-> d] :
        c \in {f \in [SeqRange(DefaultTimeframes) ->
                         {None, Rally, RallyWild, RallyThin, Slide}] :
                  \A tf \in SeqRange(DefaultTimeframes) : f[tf] \in AggResponses(tf)},
        d \in AggDepths}

AggInit ==
    /\ market = None
    /\ analyses = <<>>

\* TradingAnalyzer(binance_client): the analyzer is built on a client whose
\* answers stay the same from then on
TradingAnalyzerInit ==
    /\ market = None
    /\ market' \in AggMarkets
    /\ UNCHANGED analyses

perform_complete_analysis ==
    /\ market # None
    /\ Len(analyses) < MaxAnalyses
    /\ \E out \in PerformCompleteAnalysis(market, cache, now) :
           /\ analyses' = Append(analyses, [cache_before |-> cache,
                                            result |-> out.result])
           /\ cache' = out.cache
           /\ IF out.result = None
              THEN UNCHANGED <<mtf_request, mtf_data, client_calls, client_answers>>
              ELSE /\ mtf_request' = SentimentTimeframes
                   /\ mtf_data' = out.data
                   /\ client_calls' = out.calls
                   /\ client_answers' = [tf \in out.calls |-> market.candles[tf]]
    /\ UNCHANGED <<market, now, profiles>>

(***************************************************************************)
(* TradingAnalyzer._generate_trade_signals on its own                      *)
(***************************************************************************)
\* the timeframes a caller may pass to perform_complete_analysis
SigTimeframes == {"5m", "15m", "30m", "1h", "4h", "1d"}

\* a frame whose EMAs are not aligned and whose candles form no pattern
Drift ==
    AggFrame(RallyBars, "plain",
             [first_open |-> 96, emas |-> Emas(99, 100, 97, 95),
              levels |-> Levels(<<>>, <<102>>), volume_sma |-> 2,
              volatility_risk |-> 0, volume_stability |-> Num(RiskScale)])

\* the snapshots _analyze_timeframe builds for a rally (a buy vote), for a
\* slide (a sell vote) and for the drifting frame (no vote)
SigSnapshots == {AnalyzeTimeframe(Rally), AnalyzeTimeframe(Slide), AnalyzeTimeframe(Drift)}

\* analysis['timeframes']: a snapshot for some of the timeframes, at least
\* one (perform_complete_analysis raises before this step otherwise)
SigTimeframeDicts ==
    UNION {[S -> SigSnapshots] : S \in (SUBSET SigTimeframes) \ {{}}}

\* the order-book analyses drawn: none, one around the levels of the
\* snapshots (mid-price 100.5), one far below them (mid-price 2)
SigBooks ==
    {None,
     AnalyzeOrderBookDepth([bids |-> <<Level(100, 50)>>, asks |-> <<Level(101, 1)>>]),
     AnalyzeOrderBookDepth(WideBook)}

\* analysis['market_sentiment']: None, or what get_market_sentiment returned
SigSentiments ==
    {None,
     GetMarketSentiment([tf \in {"1d"} |-> Rally],
                        AnalyzeOrderBookDepth([bids |-> <<Level(100, 50)>>,
                                               asks |-> <<Level(101, 1)>>]))}

\* the analysis dictionary as perform_complete_analysis has filled it when
\* it calls _generate_trade_signals; risk metrics exist with a daily frame
SigAnalysis(timeframes, sentiment, book) ==
    [timeframes |-> timeframes,
     market_sentiment |-> sentiment,
     order_book_analysis |-> book,
     risk_metrics |-> IF "1d" \in DOMAIN timeframes
                      THEN CalculateRiskMetrics(Rally, book) ELSE None]

SigInit ==
    /\ sig_analysis = None
    /\ sig_signals = None

generate_trade_signals ==
    /\ sig_signals = None
    /\ \E timeframes \in SigTimeframeDicts, sentiment \in SigSentiments,
          book \in SigBooks :
           /\ sig_analysis' = SigAnalysis(timeframes, sentiment, book)
           /\ sig_signals' = GenerateTradeSignals(SigAnalysis(timeframes, sentiment, book))

(***************************************************************************)
(* TradingAnalyzer._analyze_timeframe_signals on its own                   *)
(***************************************************************************)
\* EMAs of positive prices: aligned upwards, aligned downwards, crossed
TfsEmas == {Emas(99, 98, 97, 95), Emas(101, 102, 103, 104), Emas(99, 100, 97, 95)}

\* the last rsi value with its divergence flags: oversold, neutral, overbought
TfsRsis ==
    {[value |-> Frac(v, 1), signal |-> IF v < RsiOversold THEN 1
                                      ELSE IF v > RsiOverbought THEN 0 - 1 ELSE 0,
      bearish_divergence |-> bear, bullish_divergence |-> bull] :
        v \in {20, 50, 80}, bear \in BOOLEAN, bull \in BOOLEAN}

\* the last value of every pattern series: doji is 0 or 1, the others are
\* -1, 0 or 1
TfsPatterns ==
    {p \in [{PatternNames[k] : k \in DOMAIN PatternNames} -> {0 - 1, 0, 1}] :
        p["doji"] # 0 - 1}

TfsInit ==
    /\ tfs_analysis = None
    /\ tfs_signals = None

analyze_timeframe_signals ==
    /\ tfs_signals = None
    /\ \E emas \in TfsEmas, rsi \in TfsRsis, patterns \in TfsPatterns :
         LET tf_analysis == [technical_indicators |-> [emas |-> emas, rsi |-> rsi],
                             support_resistance |-> Levels(<<>>, <<>>),
                             patterns |-> patterns]
         IN  /\ tfs_analysis' = tf_analysis
             /\ tfs_signals' = AnalyzeTimeframeSignals(tf_analysis)

(***************************************************************************)
(* TradingAnalyzer.analyze_multiple_pairs, RiskAnalyzer.compare_trading_pairs *)
(***************************************************************************)
MaxSymbols == 2             \* symbols passed to analyze_multiple_pairs
PairNames == <<"BTCUSDT", "ETHUSDT", "BNBUSDT">>

\* what the client answers for one symbol: a daily frame or none, a
\* 15-minute frame or none, no book, a narrow book or the wide one
PairMarkets ==
    {[candles |-> [tf \in SeqRange(DefaultTimeframes) |->
                      IF tf = "1d" THEN daily
                      ELSE IF tf = "15m" THEN quarter ELSE None],
      depth |-> book] :
        daily \in {None, Rally, RallyWild, Slide},
        quarter \in {None, Rally},
        book \in {None,
                  [bids |-> <<Level(100, 50)>>, asks |-> <<Level(101, 1)>>],
                  WideBook}}

\* the entry compare_trading_pairs builds for one symbol
PairRisk(symbol, metrics) ==
    [symbol |-> symbol,
     risk_score |-> metrics.overall_risk_score,
     risk_level |-> metrics.risk_level,
     volatility_risk |-> metrics.volatility_risk,
     liquidity_risk |-> metrics.liquidity_risk,
     volume_stability |-> metrics.volume_stability,
     market_depth |-> metrics.market_depth.strength]

\* sorted(pair_risks, key=lambda x: x['risk_score']): stable, ascending
RECURSIVE InsertByRisk(_, _)
InsertByRisk(sorted, e) ==
    IF sorted = <<>> THEN <<e>>
    ELSE IF e.risk_score.value < Head(sorted).risk_score.value
         THEN <<e>> \o sorted
         ELSE <<Head(sorted)>> \o InsertByRisk(Tail(sorted), e)
RECURSIVE SortedByRisk(_)
SortedByRisk(pair_risks) ==
    IF pair_risks = <<>> THEN <<>>
    ELSE InsertByRisk(SortedByRisk(SubSeq(pair_risks, 1, Len(pair_risks) - 1)),
                      pair_risks[Len(pair_risks)])

\* compare_trading_pairs(pairs_analysis): every analysis dictionary has the
\* key 'risk_metrics' (perform_complete_analysis creates it with None), so
\* metrics['overall_risk_score'] raises for an analysis without risk
\* metrics and the handler returns []
CompareTradingPairs(pairs_analysis) ==
    IF \E i \in 1..Len(pairs_analysis) : pairs_analysis[i].analysis.risk_metrics = None
    THEN <<>>
    ELSE SortedByRisk([i \in 1..Len(pairs_analysis) |->
                          PairRisk(pairs_analysis[i].symbol,
                                   pairs_analysis[i].analysis.risk_metrics)])

\* pairs_analysis: the truthy analyses in the order of the symbols
RECURSIVE PairsAnalysis(_, _)
PairsAnalysis(symbols, results) ==
    IF symbols = <<>> THEN <<>>
    ELSE (IF Head(results) = None THEN <<>>
          ELSE <<[symbol |-> Head(symbols), analysis |-> Head(results)]>>)
         \o PairsAnalysis(Tail(symbols), Tail(results))

\* the analyses perform_complete_analysis may return for the symbols, each
\* symbol with cache files of its own that do not exist yet
RECURSIVE PairResults(_, _)
PairResults(markets, t) ==
    IF markets = <<>> THEN {<<>>}
    ELSE {<<out.result>> \o rest :
            out \in PerformCompleteAnalysis(Head(markets),
                                            [k \in CacheKeys |-> Absent], t),
            rest \in PairResults(Tail(markets), t)}

AnalyzeMultiplePairs(symbols, results) ==
    LET pairs_analysis == PairsAnalysis(symbols, results) IN
    IF pairs_analysis = <<>> THEN None
    ELSE [pairs_analysis |-> pairs_analysis,
          ranked_pairs |-> CompareTradingPairs(pairs_analysis)]

PairInit ==
    /\ pair_symbols = <<>>
    /\ pair_markets = <<>>
    /\ pair_result = Unasked

analyze_multiple_pairs ==
    /\ pair_result = Unasked
    /\ \E n \in 0..MaxSymbols :
         \E markets \in [1..n -> PairMarkets] :
           \E results \in PairResults(markets, now) :
               /\ pair_symbols' = SubSeq(PairNames, 1, n)
               /\ pair_markets' = markets
               /\ pair_result' = AnalyzeMultiplePairs(SubSeq(PairNames, 1, n), results)

(***************************************************************************)
(* Specifications                                                          *)
(***************************************************************************)
vars == <<rsiVars, depthVars, vpVars, cacheVars, btVars, aggVars, patVars, riskVars, srVars, sigVars, pairVars, tfsVars>>

InitAll ==
    /\ RsiInit /\ DepthInit /\ VpInit /\ CacheInit /\ BtInit /\ AggInit
    /\ PatInit /\ RiskInit /\ SrInit /\ SigInit /\ PairInit /\ TfsInit

NextRsi == calculate_advanced_rsi /\ UNCHANGED <<depthVars, vpVars, cacheVars, btVars, aggVars, patVars, riskVars, srVars, sigVars, pairVars, tfsVars>>
SpecRsi == InitAll /\ [][NextRsi]_vars

NextDepth == analyze_order_book_depth /\ UNCHANGED <<rsiVars, vpVars, cacheVars, btVars, aggVars, patVars, riskVars, srVars, sigVars, pairVars, tfsVars>>
SpecDepth == InitAll /\ [][NextDepth]_vars

NextVp == calculate_volume_profile /\ UNCHANGED <<rsiVars, depthVars, cacheVars, btVars, aggVars, patVars, riskVars, srVars, sigVars, pairVars, tfsVars>>
SpecVp == InitAll /\ [][NextVp]_vars

NextCache ==
    \/ Tick /\ UNCHANGED <<rsiVars, depthVars, vpVars, btVars, aggVars, patVars, riskVars, srVars, sigVars, pairVars, tfsVars>>
    \/ get_multi_timeframe_data /\ UNCHANGED <<rsiVars, depthVars, vpVars, btVars, aggVars, patVars, riskVars, srVars, sigVars, pairVars, tfsVars>>
SpecCache == InitAll /\ [][NextCache]_vars

NextMarketVp == analyze_volume_profile /\ UNCHANGED <<rsiVars, depthVars, vpVars, btVars, aggVars, patVars, riskVars, srVars, sigVars, pairVars, tfsVars>>
SpecMarketVp == InitAll /\ [][NextMarketVp]_vars

NextBacktest == analyze_historical_data /\ UNCHANGED <<rsiVars, depthVars, vpVars, cacheVars, aggVars, patVars, riskVars, srVars, sigVars, pairVars, tfsVars>>
SpecBacktest == InitAll /\ [][NextBacktest]_vars

NextAggregator ==
    \/ TradingAnalyzerInit /\ UNCHANGED <<rsiVars, depthVars, vpVars, cacheVars, btVars, patVars, riskVars, srVars, sigVars, pairVars, tfsVars>>
    \/ Tick /\ analyses # <<>> /\ Len(analyses) < MaxAnalyses
            /\ UNCHANGED <<rsiVars, depthVars, vpVars, btVars, aggVars, patVars, riskVars, srVars, sigVars, pairVars, tfsVars>>
    \/ perform_complete_analysis /\ UNCHANGED <<rsiVars, depthVars, vpVars, btVars, patVars, riskVars, srVars, sigVars, pairVars, tfsVars>>
SpecAggregator == InitAll /\ [][NextAggregator]_vars

NextPatterns ==
    identify_engulfing
        /\ UNCHANGED <<rsiVars, depthVars, vpVars, cacheVars, btVars, aggVars, riskVars, srVars, sigVars, pairVars, tfsVars>>
SpecPatterns == InitAll /\ [][NextPatterns]_vars

NextRisk ==
    calculate_liquidity_risk
        /\ UNCHANGED <<rsiVars, depthVars, vpVars, cacheVars, btVars, aggVars, patVars, srVars, sigVars, pairVars, tfsVars>>
SpecRisk == InitAll /\ [][NextRisk]_vars

NextLevels ==
    calculate_support_resistance
        /\ UNCHANGED <<rsiVars, depthVars, vpVars, cacheVars, btVars, aggVars,
                       patVars, riskVars, sigVars, pairVars, tfsVars>>
SpecLevels == InitAll /\ [][NextLevels]_vars

NextSignals ==
    generate_trade_signals
        /\ UNCHANGED <<rsiVars, depthVars, vpVars, cacheVars, btVars, aggVars,
                       patVars, riskVars, srVars, pairVars, tfsVars>>
SpecSignals == InitAll /\ [][NextSignals]_vars

NextPairs ==
    analyze_multiple_pairs
        /\ UNCHANGED <<rsiVars, depthVars, vpVars, cacheVars, btVars, aggVars,
                       patVars, riskVars, srVars, sigVars, tfsVars>>
SpecPairs == InitAll /\ [][NextPairs]_vars

NextTimeframeSignals ==
    analyze_timeframe_signals
        /\ UNCHANGED <<rsiVars, depthVars, vpVars, cacheVars, btVars, aggVars, patVars, riskVars, srVars, sigVars, pairVars>>
SpecTimeframeSignals == InitAll /\ [][NextTimeframeSignals]_vars

(***************************************************************************)
(* Claims                                                                  *)
(***************************************************************************)
IsConstantSeries(data) == \A i, j \in 1..Len(data) : data[i] = data[j]

\* C1: for every constant price series calculate_advanced_rsi returns an
\* RSI of exactly 50 at every bar.
C1_ConstantPriceRsiIs50 ==
    (rsi_result # None /\ IsConstantSeries(rsi_data)) =>
        \A k \in 1..Len(rsi_data) :
            FracEq(rsi_result.RSI[k], Frac(RsiNeutral, 1))

HasBothSides == depth \notin {Unasked, None} /\ depth.bids # <<>> /\ depth.asks # <<>>

\* C3: analyze_order_book_depth rejects every depth snapshot whose best bid
\* is greater than or equal to its best ask: it returns None for it.
C3_CrossedBookRejected ==
    (HasBothSides /\ depth.bids[1].price >= depth.asks[1].price) =>
        order_book = None

\* the scenario of C10: bids=[[100,50]], asks=[[101,1]]
ScenarioDepth == [bids |-> <<Level(100, 50)>>, asks |-> <<Level(101, 1)>>]

\* the general part of C10, on every snapshot that is analysed
DepthFormulas ==
    order_book # None =>
        /\ order_book.spread + depth.bids[1].price = depth.asks[1].price
        /\ FracEq(order_book.mid_price,
                  Frac(depth.bids[1].price + depth.asks[1].price, 2))
        \* spread_percentage * mid_price = spread * 100
        /\ order_book.spread_percentage.num * order_book.mid_price.num
             = 100 * order_book.spread
                 * order_book.spread_percentage.den * order_book.mid_price.den
        /\ order_book.bid_volume = SumSeq(Quantities(depth.bids))
        /\ order_book.ask_volume = SumSeq(Quantities(depth.asks))
        /\ IF order_book.bid_volume + order_book.ask_volume = 0
           THEN /\ FracEq(order_book.buy_pressure, Frac(50, 1))
                /\ FracEq(order_book.sell_pressure, Frac(50, 1))
           ELSE /\ order_book.buy_pressure.num
                     * (order_book.bid_volume + order_book.ask_volume)
                     = 100 * order_book.bid_volume * order_book.buy_pressure.den
                \* buy_pressure + sell_pressure = 100
                /\ order_book.buy_pressure.num * order_book.sell_pressure.den
                     + order_book.sell_pressure.num * order_book.buy_pressure.den
                     = 100 * order_book.buy_pressure.den
                           * order_book.sell_pressure.den

\* C10 as stated: the formulas, and on the scenario buy_pressure ~ 98.04
\* (to two decimals), spread = 1 and spread_percentage = 1.0.
C10_DepthMetricsAsStated ==
    /\ DepthFormulas
    /\ (depth = ScenarioDepth /\ order_book # None) =>
        /\ FracLe(Frac(98035, 1000), order_book.buy_pressure)
        /\ FracLt(order_book.buy_pressure, Frac(98045, 1000))
        /\ order_book.spread = 1
        /\ FracEq(order_book.spread_percentage, Frac(1, 1))

\* C10 amended: the formulas, and on the scenario buy_pressure = 5000/51
\* (~ 98.04), spread = 1 and spread_percentage = 100/100.5 (~ 0.995, which
\* is 1.0 only after rounding to one decimal).
C10_DepthMetrics ==
    /\ DepthFormulas
    /\ (depth = ScenarioDepth /\ order_book # None) =>
        /\ FracLe(Frac(98035, 1000), order_book.buy_pressure)
        /\ FracLt(order_book.buy_pressure, Frac(98045, 1000))
        /\ order_book.spread = 1
        /\ FracEq(order_book.spread_percentage, Frac(200, 201))
        /\ FracLt(order_book.spread_percentage, Frac(1, 1))

C10_Witness == depth = ScenarioDepth /\ order_book # None

\* C4: every result of calculate_volume_profile, the default one included,
\* has value_area_low <= poc <= value_area_high, whatever order bins of
\* equal volume are visited in.
C4_PocInsideValueArea ==
    vp_result # None =>
        /\ FracLe(vp_result.value_area_low, vp_result.poc)
        /\ FracLe(vp_result.poc, vp_result.value_area_high)

AllCandlesHaveRange(data) == \A i \in 1..Len(data) : data[i].high > data[i].low

\* C6: when every candle has high > low, the bin volumes sum to the total
\* input volume.
C6_BinVolumesSumToTotal ==
    (vp_result # None /\ Len(vp_data) > 0 /\ AllCandlesHaveRange(vp_data)) =>
        SumOver(vp_result.volume_profile, DOMAIN vp_result.volume_profile)
            = VpScale(vp_data, vp_levels)
                * SumSeq([i \in 1..Len(vp_data) |-> vp_data[i].volume])

\* C5: every timeframe profile returned by analyze_volume_profile has
\* value_area_low <= poc <= value_area_high, also when bins tie at the
\* maximum volume and when one bin holds more than 70% of the volume.
C5_MarketPocInsideValueArea ==
    profiles # None =>
        \A tf \in DOMAIN profiles :
            /\ FracLe(profiles[tf].value_area_low, profiles[tf].poc)
            /\ FracLe(profiles[tf].poc, profiles[tf].value_area_high)

\* a cache file that can be read, holds rows and is younger than CacheTtl
FreshCopy(file, t) ==
    /\ file \notin {Absent, Corrupt}
    /\ file.data.bars # <<>>
    /\ t - file.last_updated < CacheTtl

\* C7: get_multi_timeframe_data asks the collaborator for a requested
\* timeframe if and only if the cache holds no readable, non-empty copy
\* younger than 3600 s (a copy of exactly 3600 s is stale); otherwise the
\* cached copy is what it returns.
C7_Post ==
    /\ client_calls' = {tf \in SeqRange(mtf_request') : ~FreshCopy(cache[tf], now)}
    /\ \A tf \in SeqRange(mtf_request') :
           FreshCopy(cache[tf], now) =>
               /\ tf \in DOMAIN mtf_data'
               /\ mtf_data'[tf].bars = cache[tf].data.bars
               /\ cache'[tf] = cache[tf]
C7_ClientCalledIffNoFreshCopy == [][get_multi_timeframe_data => C7_Post]_vars

\* a call that served one timeframe from a copy 3599 s old and fetched the
\* other, whose copy was 3600 s old
C7_Witness ==
    /\ mtf_request = <<"1h", "4h">>
    /\ client_calls = {"4h"}
    /\ "1h" \in DOMAIN mtf_data
    /\ cache["1h"] \notin {Absent, Corrupt}
    /\ now - cache["1h"].last_updated = CacheTtl - 1

\* two date ranges hold the same rows before the row labelled ts
AgreeBefore(p1, p2, ts) ==
    /\ \A i \in DOMAIN p1 : p1[i].ts < ts => i \in DOMAIN p2 /\ p2[i] = p1[i]
    /\ \A i \in DOMAIN p2 : p2[i].ts < ts => i \in DOMAIN p1

\* C2: the predicted part of every PredictionRecord depends on the rows
\* before its cursor only: any other window that holds the same rows before
\* the cursor and yields a record for it, yields the same predicted part.
C2_NoLookahead ==
    bt_results # None =>
        \A k \in DOMAIN bt_results.predictions :
            \A md \in BtWindows :
                AgreeBefore(bt_period, md, bt_results.predictions[k].timestamp) =>
                    LET other == AnalyzeHistoricalData(md, bt_analysis).predictions IN
                    \A m \in DOMAIN other :
                        other[m].timestamp = bt_results.predictions[k].timestamp =>
                            other[m].predicted = bt_results.predictions[k].predicted

\* C13: analyze_historical_data called with a date range of fewer than
\* MIN_DATA_POINTS rows, or with no rows at all, returns the default result:
\* no predictions, every accuracy, ROI and error-analysis metric 0.
C13_ShortWindowGivesDefault ==
    (bt_results # None /\ Len(bt_period) < MIN_DATA_POINTS)
        => bt_results = DefaultResults

\* market_data of 50 rows of which the date range holds 49
C13_Witness ==
    /\ bt_results = DefaultResults
    /\ Len(bt_market_data) = MIN_DATA_POINTS
    /\ Len(bt_period) = MIN_DATA_POINTS - 1

\* analysis_results as perform_complete_analysis returns it: the signal
\* under the keys _generate_trade_signals writes
IsProducedAnalysis(analysis) ==
    /\ "trade_signals" \in DOMAIN analysis
    /\ analysis.trade_signals # None
    /\ "recommended_direction" \in DOMAIN analysis.trade_signals

\* C19: every PredictionRecord carries the direction and the confidence of
\* the trade signal of the current analysis as perform_complete_analysis
\* produced it, with entry = the close of the last row before the cursor and
\* tp and sl at +2%/-1% of it for long, -2%/+1% for short.
C19_PredictionFollowsSignal ==
    (bt_results # None /\ IsProducedAnalysis(bt_analysis)) =>
        \A k \in DOMAIN bt_results.predictions :
            LET p == bt_results.predictions[k].predicted
                long == bt_analysis.trade_signals.recommended_direction = "long"
            IN  /\ p.direction = bt_analysis.trade_signals.recommended_direction
                /\ p.confidence = bt_analysis.trade_signals.confidence_score
                /\ FracEq(p.price_levels.tp,
                          Frac(p.price_levels.entry.num
                                  * (IF long THEN LongTpPct ELSE ShortTpPct),
                               p.price_levels.entry.den * 100))

\* the rows i .. i + 23 (0-based) of the cleaned date range
FutureRows(i) ==
    SubSeq(CleanMarketData(bt_period), i + 1, i + MIN_PREDICTION_POINTS)

\* C20: a long PredictionRecord at cursor i has success = TRUE exactly when
\* the maximum high over rows i..i+23 is >= tp and the minimum low over them
\* is >= sl; a short one exactly when the minimum low is <= tp and the
\* maximum high is <= sl.
C20_SuccessIffTpReachedAndSlHeld ==
    bt_results # None =>
        \A k \in DOMAIN bt_results.predictions :
            LET rec == bt_results.predictions[k]
                rows == FutureRows(MIN_DATA_POINTS + k - 1)
                lv == rec.predicted.price_levels
                reaches(c, level) ==
                    \E j \in DOMAIN rows : FracLe(level, Frac(rows[j][c], 1))
                falls(c, level) ==
                    \E j \in DOMAIN rows : FracLe(Frac(rows[j][c], 1), level)
                above(c, level) ==
                    \A j \in DOMAIN rows : FracLe(level, Frac(rows[j][c], 1))
                below(c, level) ==
                    \A j \in DOMAIN rows : FracLe(Frac(rows[j][c], 1), level)
            IN  /\ rec.predicted.direction \in {"long", "short"}
                /\ rec.predicted.direction = "long" =>
                       (rec.success <=> (reaches("high", lv.tp) /\ above("low", lv.sl)))
                /\ rec.predicted.direction = "short" =>
                       (rec.success <=> (falls("low", lv.tp) /\ below("high", lv.sl)))

\* a long record whose rows reach tp and breach sl: no success
C20_Witness ==
    /\ bt_results # None
    /\ \E k \in DOMAIN bt_results.predictions :
           LET rec == bt_results.predictions[k]
               rows == FutureRows(MIN_DATA_POINTS + k - 1)
           IN  /\ rec.predicted.direction = "long"
               /\ \E j \in DOMAIN rows :
                      FracLe(rec.predicted.price_levels.tp, Frac(rows[j].high, 1))
               /\ \E j \in DOMAIN rows :
                      FracLt(Frac(rows[j].low, 1), rec.predicted.price_levels.sl)
               /\ ~rec.success

\* the trade signals a call returned (None when it returned nothing)
TradeSignalsOf(call) ==
    IF call.result = None THEN None ELSE call.result.trade_signals

\* C8: two consecutive perform_complete_analysis calls under the same frozen
\* answers of the collaborator (candles and depth) return the same trade
\* signals, whatever the first call left in the candle cache and however
\* much time passed between them.
C8_ConsecutiveCallsAgree ==
    \A i \in 1..(Len(analyses) - 1) :
        TradeSignalsOf(analyses[i]) = TradeSignalsOf(analyses[i+1])

\* two calls, the first on an empty cache, the second served every cached
\* timeframe from the copy the first one wrote; both recommend a long
\* position with entry, stop and target
C8_Witness ==
    /\ Len(analyses) = 2
    /\ \A tf \in CacheKeys : analyses[1].cache_before[tf] = Absent
    /\ \A tf \in CacheKeys : FreshCopy(analyses[2].cache_before[tf],
                                       analyses[2].result.timestamp)
    /\ analyses[2].result.trade_signals.recommended_direction = "long"
    /\ analyses[2].result.trade_signals.entry_zone # None

\* closes never fall from row to row and EMA9 > EMA20 > EMA50
RisingFrame(df) ==
    /\ df # None
    /\ \A i \in 1..(Len(df.bars) - 1) : df.bars[i].close <= df.bars[i+1].close
    /\ df.history.emas.EMA_9 > df.history.emas.EMA_20
    /\ df.history.emas.EMA_20 > df.history.emas.EMA_50
RisingMarket ==
    /\ market # None
    /\ \A tf \in SeqRange(DefaultTimeframes) : RisingFrame(market.candles[tf])

\* recommended_direction = 'long' and confidence_score > 60
LongAbove60(signals) ==
    /\ signals.recommended_direction = "long"
    /\ signals.confidence_score # NaN
    /\ FracLt(Frac(60, 1), signals.confidence_score)

C11_EngulfingAntisymmetric ==
    pat_result # None =>
        /\ Len(pat_result.mirror) = Len(pat_result.signals)
        /\ \A i \in DOMAIN pat_result.signals :
               pat_result.mirror[i] = 0 - pat_result.signals[i]

\* a two-candle series whose second bar is a bullish engulfing, and a
\* bearish one in the mirror image
C11_Witness ==
    /\ pat_result # None
    /\ Len(pat_data) = 2
    /\ pat_result.signals[2] = 1
    /\ pat_result.mirror[2] = 0 - 1

\* two analyses that differ in spread_percentage at most
SameVolumes(a, b) ==
    /\ a # None /\ b # None
    /\ a.bid_volume = b.bid_volume
    /\ a.ask_volume = b.ask_volume

\* C12: with bid volume and ask volume held fixed, _calculate_liquidity_risk
\* never decreases when spread_percentage increases, and every result lies
\* in [0, 1].
C12_LiquidityRiskMonotone ==
    /\ \A i \in DOMAIN risk_calls :
           /\ risk_calls[i].liquidity_risk >= 0
           /\ risk_calls[i].liquidity_risk <= RiskScale
    /\ \A i, j \in DOMAIN risk_calls :
           (/\ SameVolumes(risk_calls[i].order_book, risk_calls[j].order_book)
            /\ FracLe(risk_calls[i].order_book.spread_percentage,
                      risk_calls[j].order_book.spread_percentage))
               => risk_calls[i].liquidity_risk <= risk_calls[j].liquidity_risk

\* two calls for the same volumes, the second with the wider spread and the
\* larger risk
C12_Witness ==
    /\ Len(risk_calls) = 2
    /\ SameVolumes(risk_calls[1].order_book, risk_calls[2].order_book)
    /\ FracLt(risk_calls[1].order_book.spread_percentage,
              risk_calls[2].order_book.spread_percentage)
    /\ risk_calls[1].liquidity_risk < risk_calls[2].liquidity_risk

\* a list sorted ascending without duplicates
StrictlyAscending(s) == \A i \in 1..(Len(s) - 1) : s[i] < s[i + 1]

\* C14: calculate_support_resistance returns {support: [], resistance: []}
\* for the empty series and for every series of fewer than 2 * window + 1
\* rows; for longer series both lists are sorted ascending and hold no
\* value twice.
C14_LevelsEmptyOrSorted ==
    sr_result # None =>
        /\ Len(sr_data) < 2 * sr_window + 1 =>
               sr_result = [support |-> <<>>, resistance |-> <<>>]
        /\ StrictlyAscending(sr_result.support)
        /\ StrictlyAscending(sr_result.resistance)

\* a series with two confirmed support levels, found in descending order
C14_Witness ==
    /\ sr_result # None
    /\ Len(sr_result.support) = 2
    /\ \E i, j \in 1..Len(sr_data) :
           /\ i < j
           /\ IsSupport(sr_data, i - 1, sr_window)
           /\ IsSupport(sr_data, j - 1, sr_window)
           /\ sr_data[i].low > sr_data[j].low

\* the weights the claim names, in quarters
StatedWeight(tf) == IF tf = "1d" THEN 4 ELSE IF tf = "4h" THEN 2 ELSE 1
\* the weight of the timeframes of the analysis whose snapshot votes s
VotingWeight(analysis, s) ==
    SumOver([tf \in DOMAIN analysis.timeframes |->
                IF AnalyzeTimeframeSignals(analysis.timeframes[tf]).signal = s
                THEN StatedWeight(tf) ELSE 0],
            DOMAIN analysis.timeframes)
SnapshotWeight(analysis) ==
    SumOver([tf \in DOMAIN analysis.timeframes |-> StatedWeight(tf)],
            DOMAIN analysis.timeframes)
\* share > 0.6
Above60(part, whole) == 10 * part > 6 * whole

\* C15: with market sentiment available, the direction is 'long' exactly
\* when the buy-voting timeframes hold more than 0.6 of the weight of all
\* timeframes with a snapshot (1d = 1.0, 4h = 0.5, any other = 0.25),
\* 'short' exactly when the sell-voting ones do, and none otherwise; a share
\* of exactly 0.6 gives no direction and the two cases exclude each other.
C15_DirectionThreshold ==
    (sig_signals # None /\ sig_analysis.market_sentiment # None) =>
        LET buy == VotingWeight(sig_analysis, "buy")
            sell == VotingWeight(sig_analysis, "sell")
            total == SnapshotWeight(sig_analysis)
        IN  /\ sig_signals.recommended_direction = "long" <=> Above60(buy, total)
            /\ sig_signals.recommended_direction = "short" <=> Above60(sell, total)
            /\ sig_signals.recommended_direction \in {"long", "short", NoneStr}
            /\ ~(Above60(buy, total) /\ Above60(sell, total))

\* six timeframes of which 1d and 4h vote buy: a share of exactly 0.6 and
\* no direction
C15_Witness ==
    /\ sig_signals # None
    /\ sig_analysis.market_sentiment # None
    /\ 10 * VotingWeight(sig_analysis, "buy") = 6 * SnapshotWeight(sig_analysis)
    /\ sig_signals.recommended_direction = NoneStr

\* C16: whenever a direction is chosen and the order-book analysis exists,
\* entry_zone is the mid-price; for long, stop_loss is 0.995 times the
\* highest support below the mid-price and take_profit 1.005 times the
\* lowest resistance above it (mirrored for short), each left out only when
\* no such level exists.
C16_ZonesFromLevels ==
    (/\ sig_signals # None
     /\ sig_signals.recommended_direction # NoneStr
     /\ sig_analysis.order_book_analysis # None) =>
        LET mid == sig_analysis.order_book_analysis.mid_price
            supports == LevelsBelow(sig_analysis.timeframes, mid)
            resistances == LevelsAbove(sig_analysis.timeframes, mid)
            below == IF supports = {} THEN None
                     ELSE Frac(StopPerMille * SetMax(supports), 1000)
            above == IF resistances = {} THEN None
                     ELSE Frac(TargetPerMille * SetMin(resistances), 1000)
            long == sig_signals.recommended_direction = "long"
        IN  /\ sig_signals.entry_zone = mid
            /\ sig_signals.stop_loss = (IF long THEN below ELSE above)
            /\ sig_signals.take_profit = (IF long THEN above ELSE below)

\* the requested timeframes for which get_market_data answered with rows
TimeframesWithData ==
    {tf \in {"15m", "1h", "4h", "1d"} :
        market.candles[tf] # None /\ Len(market.candles[tf].bars) > 0}

SymbolsWithRisk ==
    {pair_result.pairs_analysis[i].symbol :
        i \in {j \in 1..Len(pair_result.pairs_analysis) :
                  pair_result.pairs_analysis[j].analysis.risk_metrics # None}}

\* C18: the ranked list holds exactly one entry for every symbol whose
\* analysis has risk metrics, in order of non-decreasing overall risk
\* score; a symbol without risk metrics is skipped and leaves the ranking
\* of the others as it is.
C18_RankedPairsComplete ==
    (pair_result # Unasked /\ pair_result # None) =>
        LET ranked == pair_result.ranked_pairs IN
        /\ {ranked[i].symbol : i \in 1..Len(ranked)} = SymbolsWithRisk
        /\ Len(ranked) = Cardinality(SymbolsWithRisk)
        /\ \A i \in 1..(Len(ranked) - 1) :
               ranked[i].risk_score.value <= ranked[i + 1].risk_score.value

\* the rows other than row i (1-based) whose low lies within 0.2% of price
OtherLowTouches(i, price) ==
    Cardinality({j \in 1..Len(sr_data) :
        j # i /\ 1000 * Abs(sr_data[j].low - price) <= 2 * price})
OtherHighTouches(i, price) ==
    Cardinality({j \in 1..Len(sr_data) :
        j # i /\ 1000 * Abs(sr_data[j].high - price) <= 2 * price})

\* C21: a support (resistance) candidate is reported as a level only if at
\* least num_touches bars other than the candidate bar itself have a low
\* (high) within 0.2% of its price.
C21_TouchesByOtherBars ==
    sr_result # None =>
        /\ \A k \in 1..Len(sr_result.support) :
               \E i \in 1..Len(sr_data) :
                   /\ IsSupport(sr_data, i - 1, sr_window)
                   /\ sr_data[i].low = sr_result.support[k]
                   /\ OtherLowTouches(i, sr_data[i].low) >= sr_touches
        /\ \A k \in 1..Len(sr_result.resistance) :
               \E i \in 1..Len(sr_data) :
                   /\ ~IsSupport(sr_data, i - 1, sr_window)
                   /\ IsResistance(sr_data, i - 1, sr_window)
                   /\ sr_data[i].high = sr_result.resistance[k]
                   /\ OtherHighTouches(i, sr_data[i].high) >= sr_touches

\* the points the claim gives the bullish (side = 1) or bearish (side = -1)
\* side of the snapshot of the last call
StatedPoints(side) ==
    LET emas == tfs_analysis.technical_indicators.emas
        rsi == tfs_analysis.technical_indicators.rsi
        aligned == IF side = 1
                   THEN emas.EMA_9 > emas.EMA_20 /\ emas.EMA_20 > emas.EMA_50
                   ELSE emas.EMA_9 < emas.EMA_20 /\ emas.EMA_20 < emas.EMA_50
        qualifying == IF side = 1
                      THEN rsi.value.num < 30 * rsi.value.den /\ rsi.bullish_divergence
                      ELSE rsi.value.num > 70 * rsi.value.den /\ rsi.bearish_divergence
    IN  (IF aligned THEN 30 ELSE 0) + (IF qualifying THEN 25 ELSE 0)
        + 15 * Cardinality({p \in DOMAIN tfs_analysis.patterns :
                               tfs_analysis.patterns[p] = side})

\* C22: _analyze_timeframe_signals emits 'buy' iff bullish points > bearish
\* points and bullish points >= 30, 'sell' iff bearish points > bullish
\* points and bearish points >= 30, and no signal otherwise (a tie gives
\* none); the strength is the winning side's points.
C22_SignalFromPoints ==
    tfs_signals # None =>
        LET bull == StatedPoints(1)
            bear == StatedPoints(0 - 1)
        IN  /\ tfs_signals.signal = "buy" <=> (bull > bear /\ bull >= 30)
            /\ tfs_signals.signal = "sell" <=> (bear > bull /\ bear >= 30)
            /\ tfs_signals.signal \in {"buy", "sell", NoneStr}
            /\ tfs_signals.signal = "buy" => tfs_signals.strength = bull
            /\ tfs_signals.signal = "sell" => tfs_signals.strength = bear

\* both sides hold the same 30 points or more and no signal is emitted
C22_Witness ==
    /\ tfs_signals # None
    /\ StatedPoints(1) = StatedPoints(0 - 1)
    /\ StatedPoints(1) >= 30
    /\ tfs_signals.signal = NoneStr

\* the zones of one side of the analysed book cover the side's levels
ZonesPartition(side, zones) ==
    LET total == SumSeq([i \in 1..Len(side) |-> side[i].quantity]) IN
    total > 0 =>
        /\ SumSeq([k \in 1..Len(zones) |-> zones[k].volume]) = total
        /\ \A k \in 1..Len(zones) : 10 * zones[k].volume >= total
        /\ Len(zones) <= 10

\* C23: for each side of a depth snapshot with positive total volume the
\* liquidity zones partition the side's levels: the zone volumes sum to the
\* side's total volume, each zone holds at least 10% of it, and there are
\* at most 10 zones.
C23_ZonesPartitionLevels ==
    order_book # None =>
        /\ ZonesPartition(depth.bids, order_book.liquidity_zones.bids)
        /\ ZonesPartition(depth.asks, order_book.liquidity_zones.asks)

\* C24: each successful prediction contributes +2% and each failed one -1%
\* to the ROI metrics, for long and short alike: total_roi = 2 * W - L for
\* W successes and L failures, avg_win >= 0, avg_loss <= 0 and
\* profit_factor >= 0 in every backtest result.
C24_RoiSigns ==
    bt_results # None =>
        LET preds == bt_results.predictions
            W == Cardinality({k \in DOMAIN preds : preds[k].success})
            L == Cardinality({k \in DOMAIN preds : ~preds[k].success})
            roi == bt_results.roi_metrics
        IN  /\ roi.total_roi = 2 * W - L
            /\ roi.avg_win.num >= 0
            /\ roi.avg_loss.num <= 0
            /\ roi.profit_factor.num >= 0

\* the cleaned rows of the analysed window: the rows of the date range the
\* predictions are taken from (none when the range is too short to analyse)
CleanedWindow ==
    IF Len(bt_period) < 50 THEN <<>> ELSE CleanMarketData(bt_period)

\* one prediction per cursor 50 .. n - 24 of the n cleaned rows, in order
PredictionsAtCursors ==
    LET n == Len(CleanedWindow)
        preds == bt_results.predictions
    IN  /\ Len(preds) = (IF n > 73 THEN n - 73 ELSE 0)
        /\ \A k \in 1..Len(preds) : preds[k].timestamp = CleanedWindow[50 + k].ts
        /\ n <= 73 => bt_results = DefaultResults

\* the analysis carries no 'trade_signals' entry of None
HasSignalDict ==
    "trade_signals" \in DOMAIN bt_analysis => bt_analysis.trade_signals # None

C26_TrendAlwaysUnknown ==
    bt_results # None =>
        /\ \A k \in DOMAIN bt_results.predictions :
               bt_results.predictions[k].actual.trend = "unknown"
        /\ bt_results.error_analysis.trend_misalignment.num = 0

\* a failed long prediction whose forward rows close below the entry
C26_Witness ==
    /\ bt_results # None
    /\ \E k \in DOMAIN bt_results.predictions :
           LET p == bt_results.predictions[k] IN
           /\ ~p.success
           /\ p.predicted.direction = "long"
           /\ p.actual.close * p.predicted.price_levels.entry.den
                  < p.predicted.price_levels.entry.num
    /\ bt_results.error_analysis.trend_misalignment.num = 0

\* a signal with no direction, confidence 0, no entry, stop or target, no
\* risk-adjusted size and an empty per-timeframe breakdown
IsEmptySignal(signals) ==
    /\ signals.recommended_direction = NoneStr
    /\ signals.confidence_score.num = 0
    /\ signals.entry_zone = None
    /\ signals.stop_loss = None
    /\ signals.take_profit = None
    /\ signals.risk_adjusted_size = None
    /\ DOMAIN signals.timeframe_signals = {}

\* C27: if market sentiment is unavailable, for example because the
\* order-book fetch failed, the trade signal has no direction, confidence
\* 0, no entry, stop or target, no risk-adjusted size and an empty
\* per-timeframe breakdown, however the snapshots would have voted and
\* whether or not risk metrics exist.
C27_NoSentimentNoSignal ==
    \A i \in 1..Len(analyses) :
        LET r == analyses[i].result IN
        r # None =>
            /\ market.depth = None => r.market_sentiment = None
            /\ r.market_sentiment = None => IsEmptySignal(r.trade_signals)

\* the order-book fetch failed, every snapshot votes buy and risk metrics
\* exist: the signal is empty all the same
C27_Witness ==
    \E i \in 1..Len(analyses) :
        LET r == analyses[i].result IN
        /\ r # None
        /\ market.depth = None
        /\ r.risk_metrics # None
        /\ DOMAIN r.timeframes = {"15m", "1h", "4h", "1d"}
        /\ \A tf \in DOMAIN r.timeframes :
               AnalyzeTimeframeSignals(r.timeframes[tf]).signal = "buy"
        /\ IsEmptySignal(r.trade_signals)

\* the last call had market sentiment and a snapshot for exactly the four
\* default timeframes
FourDefaultSnapshots ==
    /\ sig_signals # None
    /\ sig_analysis.market_sentiment # None
    /\ DOMAIN sig_analysis.timeframes = {"15m", "1h", "4h", "1d"}

\* timeframe tf votes for direction dir
VotesFor(tf, dir) ==
    AnalyzeTimeframeSignals(sig_analysis.timeframes[tf]).signal
        = (IF dir = "long" THEN "buy" ELSE "sell")

\* C28 (as stated): with snapshots for all four default timeframes a
\* direction is recommended only if the 1d timeframe votes for it together
\* with the 4h timeframe or with both of 15m and 1h.
C28_DailyWithFourHourOrBoth ==
    FourDefaultSnapshots =>
        \A dir \in {"long", "short"} :
            sig_signals.recommended_direction = dir =>
                /\ VotesFor("1d", dir)
                /\ VotesFor("4h", dir) \/ (VotesFor("15m", dir) /\ VotesFor("1h", dir))

\* C28 (amended): with snapshots for all four default timeframes a
\* direction is recommended only if the 1d timeframe votes for it together
\* with at least one of the other three; 15m, 1h and 4h voting unanimously
\* against a silent or opposing 1d never produce a direction.
C28_DailyWithOneOther ==
    FourDefaultSnapshots =>
        \A dir \in {"long", "short"} :
            /\ sig_signals.recommended_direction = dir =>
                   /\ VotesFor("1d", dir)
                   /\ \E tf \in {"15m", "1h", "4h"} : VotesFor(tf, dir)
            /\ (~VotesFor("1d", dir) /\ \A tf \in {"15m", "1h", "4h"} : VotesFor(tf, dir))
                   => sig_signals.recommended_direction = NoneStr

\* 1d and 15m vote buy, 1h and 4h do not: the direction is long
C28_Witness ==
    /\ FourDefaultSnapshots
    /\ VotesFor("1d", "long") /\ VotesFor("15m", "long")
    /\ ~VotesFor("1h", "long") /\ ~VotesFor("4h", "long")
    /\ sig_signals.recommended_direction = "long"

\* C29: in every trade signal entry_zone, stop_loss and take_profit are all
\* present or all absent, and when present stop_loss < entry_zone <
\* take_profit for long and take_profit < entry_zone < stop_loss for short.
C29_ZonesAllOrNoneAndOrdered ==
    sig_signals # None =>
        LET entry == sig_signals.entry_zone
            sl == sig_signals.stop_loss
            tp == sig_signals.take_profit
        IN  /\ (entry = None /\ sl = None /\ tp = None)
                \/ (entry # None /\ sl # None /\ tp # None)
            /\ entry # None =>
                   /\ sig_signals.recommended_direction \in {"long", "short"}
                   /\ sig_signals.recommended_direction = "long" =>
                          (sl.num * entry.den < entry.num * sl.den
                           /\ entry.num * tp.den < tp.num * entry.den)
                   /\ sig_signals.recommended_direction = "short" =>
                          (tp.num * entry.den < entry.num * tp.den
                           /\ entry.num * sl.den < sl.num * entry.den)

\* a short signal with its three levels set
C29_Witness ==
    /\ sig_signals # None
    /\ sig_signals.recommended_direction = "short"
    /\ sig_signals.entry_zone # None
    /\ sig_signals.stop_loss # None
    /\ sig_signals.take_profit # None

\* the client was asked for tf and answered None or an empty series
AnsweredNothing(tf) ==
    /\ tf \in DOMAIN client_answers'
    /\ client_answers'[tf] = None \/ client_answers'[tf].bars = <<>>

\* C30: in get_multi_timeframe_data, when the collaborator returns nothing
\* for a timeframe, the cache entry of that timeframe is left unchanged,
\* the timeframe is absent from the returned mapping, and every other
\* requested timeframe is still served from the cache or fetched, and
\* returned when there is data for it.
C30_Post ==
    \A tf \in SeqRange(mtf_request') :
        AnsweredNothing(tf) =>
            /\ cache'[tf] = cache[tf]
            /\ tf \notin DOMAIN mtf_data'
            /\ \A other \in SeqRange(mtf_request') \ {tf} :
                   /\ other \in DOMAIN mtf_data' \/ other \in DOMAIN client_answers'
                   /\ other \in DOMAIN mtf_data' <=> ~AnsweredNothing(other)
C30_NoDataLeavesOthersServed == [][get_multi_timeframe_data => C30_Post]_vars

\* a call that got nothing for 1h, whose cache file stays as it was, and
\* fetched and returned 4h
C30_Witness ==
    /\ mtf_request = <<"1h", "4h">>
    /\ client_calls = {"1h", "4h"}
    /\ client_answers["1h"] = None
    /\ "1h" \notin DOMAIN mtf_data
    /\ "4h" \in DOMAIN mtf_data
    /\ cache["1h"] # Absent
====
